---- MODULE Spec2Model ----
(***************************************************************************)
(* Collaboration server of rivv0/codelive (server/index.js) together with  *)
(* the part of the browser client that turns editor transactions into      *)
(* document-operation messages and applies document-update messages        *)
(* (src/App.jsx, src/hooks/useSimpleCodeMirror.js).                        *)
(*                                                                         *)
(* Texts are sequences of one-character strings.  A JavaScript object is a *)
(* record; a property that is absent (undefined) is a field that is not in *)
(* the record's DOMAIN.  Wall-clock stamps that no handler reads back       *)
(* (joinedAt, lastSeen, lastActivity, appliedAt) are left out; the clock   *)
(* behind Date.now() and new Date() is the logical clock `now`.            *)
(***************************************************************************)
EXTENDS Integers, Sequences, FiniteSets, TLC

\* ------------------------------------------------------------------ bounds
MaxOps == 2            \* document-operation messages ever sent
MaxDocLen == 3         \* longest text an editor holds
MaxColorIndex == 12    \* cap on the colour counter where a full room is retried
MaxLeaves == 1         \* sockets that leave while a room is being filled
MaxCreates == 3        \* create-room requests of a lobby run
MaxInFlight == 2       \* server messages in flight when a room-scoped request is sent
MaxStringLength == 8   \* the engine's longest string, scaled down as the documents are

\* --------------------------------------------------------- program constants
maxUsers == 10
MaxHistory == 1000
SyncOperations == 50

Null == "null"

\* the sockets of the protocol runs, of the editor runs (a lobby socket and
\* two editors) and of the runs that fill a room
Sessions == {1, 2}
EditorSessions == {1, 2, 3}
CapacitySessions == 1..(maxUsers + 1)

RoomIds == {"ABC123", "XYZ789"}

\* server/index.js:34, shortened to two code units
WelcomeDocument == <<"w", "s">>

\* src/App.jsx:66, the editor's own initial text: it starts like the server's
\* welcome text and is shorter
initialDocument == <<"w">>

userColors ==
  << "#FF6B6B", "#4ECDC4", "#45B7D1", "#96CEB4",
     "#FFEAA7", "#DDA0DD", "#98D8C8", "#F7DC6F",
     "#FF8A80", "#82B1FF", "#B39DDB", "#A5D6A7" >>

userNames ==
  << "Alice", "Bob", "Charlie", "Diana", "Eve", "Frank",
     "Grace", "Henry", "Ivy", "Jack", "Kate", "Leo" >>

VARIABLES
  rooms,                  \* the registry: room id -> Room
  colorIndex,             \* process-global colour counter
  now,                    \* Date.now()
  status,                 \* per socket: "open" or "closed"
  roomId,                 \* socket.roomId (Null when unset)
  joined,                 \* socket.io adapter rooms the socket has joined
  toServer,               \* per socket: document-operation messages in flight
  toClient,               \* per socket: server messages in flight, FIFO
  lastAck,                \* what the handler that just ran passed to its callback
  received,               \* per socket: the operation messages the client has handled
  editor,                 \* per socket: the editor's text
  isConnected,            \* per socket: isConnectedRef of the editor component
  isApplyingRemoteChange, \* per socket: the hook's flag
  nextOp,                 \* operation ids handed out so far
  applied                 \* every operation the server accepted, in apply order

vars == << rooms, colorIndex, now, status, roomId, joined, toServer, toClient,
           lastAck, received, editor, isConnected, isApplyingRemoteChange, nextOp, applied >>

serverVars == << rooms, colorIndex, now, roomId, joined, applied >>
clientVars == << editor, isConnected, isApplyingRemoteChange, nextOp >>

\* ------------------------------------------------------------------ helpers

\* { ...b, ...a }: the spread with its two parts in the other order
SpreadUnder(a, b) ==
  [k \in (DOMAIN a) \cup (DOMAIN b) |-> IF k \in DOMAIN a THEN a[k] ELSE b[k]]

\* { ...a, ...b }
Spread(a, b) ==
  [k \in (DOMAIN a) \cup (DOMAIN b) |-> IF k \in DOMAIN b THEN b[k] ELSE a[k]]

\* String.prototype.slice(from) / slice(from, to) for integers 0 <= from
Slice(doc, from, to) ==
  LET t == IF to > Len(doc) THEN Len(doc) ELSE to
      f == IF from > Len(doc) THEN Len(doc) ELSE from
  IN  IF f >= t THEN <<>> ELSE SubSeq(doc, f + 1, t)

SliceFrom(doc, from) == Slice(doc, from, Len(doc))

\* String.prototype.toUpperCase on the room ids the model sends
toUpperCase(str) ==
  CASE str = "abc123" -> "ABC123"
    [] str = "xyz789" -> "XYZ789"
    [] str = "abc-12" -> "ABC-12"
    [] OTHER -> str

\* String.prototype.length of a requested room id
StrLen(str) == Len(str)

\* toUpperCase on one character
UpperChar(c) ==
  CASE c = "a" -> "A" [] c = "b" -> "B" [] c = "c" -> "C" [] c = "i" -> "I"
    [] c = "x" -> "X" [] c = "y" -> "Y" [] c = "z" -> "Z"
    [] OTHER -> c

\* the string made of a sequence of characters
RECURSIVE Text(_)
Text(chars) == IF chars = << >> THEN "" ELSE Head(chars) \o Text(Tail(chars))

\* ------------------------------------------------------------------- Room

\* a constructor that hands back the room the registry already has
RoomReusing(id) ==
  IF id \in DOMAIN rooms THEN rooms[id]
  ELSE [ id |-> id,
         document |-> WelcomeDocument,
         createdAt |-> now,
         users |-> [u \in {} |-> Null],
         operations |-> << >> ]

Room(id) ==
  [ id |-> id,
    document |-> WelcomeDocument,
    createdAt |-> now,
    users |-> [u \in {} |-> Null],
    operations |-> << >> ]

\* a number field of a payload holds the integer part of its number; a number
\* with a fractional part of one half has the `half` field beside it. This is
\* twice the number.
Twice(operation, field, half) ==
  2 * operation[field] + (IF half \in DOMAIN operation THEN 1 ELSE 0)

\* a validity check that lets a delete of nothing through
isValidOperationEmptyDelete(room, operation) ==
  IF ~("type" \in DOMAIN operation /\ operation.type \in {"insert", "delete", "retain"})
  THEN FALSE
  ELSE IF ~("position" \in DOMAIN operation)
  THEN FALSE
  ELSE IF operation.position < 0 \/ operation.position > Len(room.document)
  THEN FALSE
  ELSE CASE operation.type = "insert" ->
              "content" \in DOMAIN operation /\ Len(operation.content) > 0
         [] operation.type = "delete" ->
              /\ "length" \in DOMAIN operation
              /\ operation.length >= 0
              /\ operation.position + operation.length <= Len(room.document)
         [] operation.type = "retain" ->
              "length" \in DOMAIN operation /\ operation.length > 0

\* a validity check that refuses the position just past the end
isValidOperationNoAppend(room, operation) ==
  IF ~("type" \in DOMAIN operation /\ operation.type \in {"insert", "delete", "retain"})
  THEN FALSE
  ELSE IF ~("position" \in DOMAIN operation)
  THEN FALSE
  ELSE IF operation.position < 0 \/ operation.position >= Len(room.document)
  THEN FALSE
  ELSE CASE operation.type = "insert" ->
              "content" \in DOMAIN operation /\ Len(operation.content) > 0
         [] operation.type = "delete" ->
              /\ "length" \in DOMAIN operation
              /\ operation.length > 0
              /\ operation.position + operation.length <= Len(room.document)
         [] operation.type = "retain" ->
              "length" \in DOMAIN operation /\ operation.length > 0

isValidOperation(room, operation) ==
  IF ~("type" \in DOMAIN operation /\ operation.type \in {"insert", "delete", "retain"})
  THEN FALSE
  ELSE IF ~("position" \in DOMAIN operation)
  THEN FALSE
  ELSE IF \/ Twice(operation, "position", "positionHalf") < 0
          \/ Twice(operation, "position", "positionHalf") > 2 * Len(room.document)
  THEN FALSE
  ELSE CASE operation.type = "insert" ->
              "content" \in DOMAIN operation /\ Len(operation.content) > 0
         [] operation.type = "delete" ->
              /\ "length" \in DOMAIN operation
              /\ Twice(operation, "length", "lengthHalf") > 0
              /\ Twice(operation, "position", "positionHalf")
                   + Twice(operation, "length", "lengthHalf") <= 2 * Len(room.document)
         [] operation.type = "retain" ->
              "length" \in DOMAIN operation /\ Twice(operation, "length", "lengthHalf") > 0

\* a delete that keeps the last code unit of its range
applyOperationToDocumentShort(doc, operation) ==
  CASE operation.type = "insert" ->
         Slice(doc, 0, operation.position) \o operation.content
           \o SliceFrom(doc, operation.position)
    [] operation.type = "delete" ->
         Slice(doc, 0, operation.position)
           \o SliceFrom(doc, operation.position + operation.length - 1)
    [] OTHER -> doc

\* the string concatenation of the insert case throws (RangeError: Invalid
\* string length) when its result would be longer than the engine's longest string
ConcatThrows(doc, operation) ==
  /\ operation.type = "insert"
  /\ Len(doc) + Len(operation.content) > MaxStringLength

\* Room.applyOperationToDocument; its catch block returns doc
applyOperationToDocument(doc, operation) ==
  CASE ConcatThrows(doc, operation) -> doc
    [] operation.type = "insert" ->
         Slice(doc, 0, operation.position) \o operation.content
           \o SliceFrom(doc, operation.position)
    [] operation.type = "delete" ->
         Slice(doc, 0, operation.position)
           \o SliceFrom(doc, (Twice(operation, "position", "positionHalf")
                                + Twice(operation, "length", "lengthHalf")) \div 2)
    [] operation.type = "retain" -> doc
    [] OTHER -> doc

\* a history that takes its newest entry at the front
pushOperationFront(operations, operation) ==
  LET pushed == << operation >> \o operations
  IN  IF Len(pushed) > MaxHistory
      THEN SubSeq(pushed, Len(pushed) - MaxHistory + 1, Len(pushed))
      ELSE pushed

\* this.operations.push(...); if (length > 1000) slice(-1000)
pushOperation(operations, operation) ==
  LET pushed == Append(operations, operation)
  IN  IF Len(pushed) > MaxHistory
      THEN SubSeq(pushed, Len(pushed) - MaxHistory + 1, Len(pushed))
      ELSE pushed

\* Room.applyOperation after the validity check
applyOperation(room, operation) ==
  [ room EXCEPT !.operations = pushOperation(@, operation),
                !.document = applyOperationToDocument(@, operation) ]

\* Room.addUser after its two checks
addUser(room, userId, userData) ==
  [ room EXCEPT !.users =
      [u \in (DOMAIN room.users) \cup {userId} |->
         IF u = userId THEN userData ELSE room.users[u]] ]

\* a capacity check that is off by one
addUserErrorOffByOne(room, userData) ==
  IF Cardinality(DOMAIN room.users) > maxUsers THEN "Room is full"
  ELSE IF userData.name = Null \/ userData.color = Null THEN "Invalid user data"
  ELSE Null

addUserError(room, userData) ==
  IF Cardinality(DOMAIN room.users) >= maxUsers THEN "Room is full"
  ELSE IF userData.name = Null \/ userData.color = Null THEN "Invalid user data"
  ELSE Null

removeUser(room, userId) ==
  [ room EXCEPT !.users = [u \in (DOMAIN room.users) \ {userId} |-> room.users[u]] ]

\* the users in ascending socket order, as a sequence
RECURSIVE SeqOfUsers(_, _)
SeqOfUsers(users, ids) ==
  IF ids = {} THEN << >>
  ELSE LET u == CHOOSE x \in ids : \A y \in ids : x <= y
       IN  << users[u] >> \o SeqOfUsers(users, ids \ {u})

getUserList(room) == SeqOfUsers(room.users, DOMAIN room.users)

getStats(room) ==
  [ id |-> room.id,
    userCount |-> Cardinality(DOMAIN room.users),
    maxUsers |-> maxUsers,
    documentLength |-> Len(room.document),
    operationCount |-> Len(room.operations) ]

getNextUserColor == userColors[(colorIndex % Len(userColors)) + 1]

generateUserName(existingCount) ==
  IF existingCount < Len(userNames) THEN userNames[existingCount + 1]
  ELSE "User " \o ToString(existingCount + 1)

\* -------------------------------------------------------------- transport

\* the handler that just ran called no acknowledgement callback
NoAck == [to |-> 0]

\* callback(reply) of the request `name` of socket s
Callback(s, name, reply) == [to |-> s, request |-> name, reply |-> reply]

Msg(name, data) == [name |-> name, data |-> data]

\* an emit on the server instead of on the socket: every open socket gets it
EmitEverywhere(queues, s, name, data) ==
  [t \in DOMAIN queues |->
     IF status[t] = "open" THEN Append(queues[t], Msg(name, data)) ELSE queues[t]]

\* socket.emit(name, data) on socket s
Emit(queues, s, name, data) ==
  [queues EXCEPT ![s] = Append(@, Msg(name, data))]

\* a fan-out that overtakes what is already queued for a recipient
BroadcastOvertaking(queues, s, rid, name, data) ==
  [t \in DOMAIN queues |->
     IF t # s /\ status[t] = "open" /\ rid \in joined[t]
     THEN << Msg(name, data) >> \o queues[t]
     ELSE queues[t]]

\* a fan-out that sends everything twice
BroadcastTwice(queues, s, rid, name, data) ==
  [t \in DOMAIN queues |->
     IF t # s /\ status[t] = "open" /\ rid \in joined[t]
     THEN Append(Append(queues[t], Msg(name, data)), Msg(name, data))
     ELSE queues[t]]

\* a fan-out that does not leave the sender out
BroadcastToAll(queues, s, rid, name, data) ==
  [t \in DOMAIN queues |->
     IF status[t] = "open" /\ rid \in joined[t]
     THEN Append(queues[t], Msg(name, data))
     ELSE queues[t]]

\* socket.to(rid).emit(name, data): every other socket in adapter room rid
Broadcast(queues, s, rid, name, data) ==
  [t \in DOMAIN queues |->
     IF t # s /\ status[t] = "open" /\ rid \in joined[t]
     THEN Append(queues[t], Msg(name, data))
     ELSE queues[t]]

\* ------------------------------------------------------------------- Init

\* the server has started and the sockets S have connected
InitWith(S) ==
  /\ rooms = [r \in {} |-> Null]
  /\ colorIndex = 0
  /\ now = 1
  /\ status = [s \in S |-> "open"]
  /\ roomId = [s \in S |-> Null]
  /\ joined = [s \in S |-> {}]
  /\ toServer = [s \in S |-> << >>]
  /\ toClient = [s \in S |-> << >>]
  /\ lastAck = NoAck
  /\ received = [s \in S |-> << >>]
  /\ editor = [s \in S |-> initialDocument]
  /\ isConnected = [s \in S |-> FALSE]
  /\ isApplyingRemoteChange = [s \in S |-> FALSE]
  /\ nextOp = 0
  /\ applied = << >>

Init == InitWith(Sessions)

\* ------------------------------------------------------- server handlers

\* rooms.set(id, room)
SetRoom(id, room) ==
  [r \in (DOMAIN rooms) \cup {id} |-> IF r = id THEN room ELSE rooms[r]]

\* rooms.delete(id)
DeleteRoom(id) == [r \in (DOMAIN rooms) \ {id} |-> rooms[r]]

\* data.userName || null
userNameOf(data) ==
  IF "userName" \in DOMAIN data /\ data.userName \notin {"", Null}
  THEN data.userName ELSE Null

\* socket.on('create-room'); id is what generateRoomId() returns
CreateRoom(s, data, id) ==
  /\ status[s] = "open"
  /\ toServer[s] = << >>
  /\ LET userName == userNameOf(data)
         userData == [ id |-> s,
                       name |-> IF userName # Null THEN userName ELSE generateUserName(0),
                       color |-> getNextUserColor,
                       cursor |-> [line |-> 0, column |-> 0] ]
         room == addUser(Room(id), s, userData)
     IN  /\ rooms' = SetRoom(id, room)
         /\ colorIndex' = colorIndex + 1
         /\ joined' = [joined EXCEPT ![s] = @ \cup {id}]
         /\ roomId' = [roomId EXCEPT ![s] = id]
         /\ lastAck' = Callback(s, "create-room",
              [ success |-> TRUE,
                roomId |-> id,
                document |-> room.document,
                users |-> getUserList(room),
                user |-> userData,
                roomStats |-> getStats(room) ])
  /\ now' = now + 1
  /\ UNCHANGED << status, toServer, toClient, received, applied, clientVars >>

\* a refusal that has already taken a colour for the user
JoinErrorTakingColor(s, error) ==
  /\ lastAck' = Callback(s, "join-room", [success |-> FALSE, error |-> error])
  /\ colorIndex' = colorIndex + 1
  /\ UNCHANGED << rooms, roomId, joined, toClient >>

JoinError(s, error) ==
  /\ lastAck' = Callback(s, "join-room", [success |-> FALSE, error |-> error])
  /\ UNCHANGED << rooms, colorIndex, roomId, joined, toClient >>

\* a rejoin that is taken for a first join
alreadyInThisRoomNever(s, rid) == FALSE

\* socket.roomId === roomId
alreadyInThisRoom(s, rid) == roomId[s] = rid

\* socket.on('join-room')
JoinRoomHandler(s, data) ==
  LET requested == IF "string" \in DOMAIN data THEN data.string ELSE data.roomId
      userName == userNameOf(data)
      rid == toUpperCase(requested)
  IN  IF requested = "" \/ StrLen(requested) # 6
      THEN JoinError(s, "Invalid room ID format")
      ELSE IF rid \notin DOMAIN rooms
      THEN JoinError(s, "Room not found")
      ELSE IF alreadyInThisRoom(s, rid)
      THEN /\ lastAck' = Callback(s, "join-room",
                Spread([ success |-> TRUE,
                         document |-> rooms[rid].document,
                         users |-> getUserList(rooms[rid]),
                         roomStats |-> getStats(rooms[rid]) ],
                       IF s \in DOMAIN rooms[rid].users
                       THEN [user |-> rooms[rid].users[s]]
                       ELSE [u \in {} |-> Null]))
           /\ UNCHANGED << rooms, colorIndex, roomId, joined, toClient >>
      ELSE IF roomId[s] # Null /\ roomId[s] # rid
      THEN JoinError(s, "Already in a different room")
      ELSE LET room == rooms[rid]
               existingUserCount == Cardinality(DOMAIN room.users)
               userData == [ id |-> s,
                             name |-> IF userName # Null THEN userName
                                      ELSE generateUserName(existingUserCount),
                             color |-> getNextUserColor,
                             cursor |-> [line |-> 0, column |-> 0] ]
               error == addUserError(room, userData)
               added == addUser(room, s, userData)
           IN  /\ colorIndex' = colorIndex + 1
               /\ IF error # Null
                  THEN /\ lastAck' = Callback(s, "join-room",
                                              [success |-> FALSE, error |-> error])
                       /\ UNCHANGED << rooms, roomId, joined, toClient >>
                  ELSE /\ rooms' = [rooms EXCEPT ![rid] = added]
                       /\ joined' = [joined EXCEPT ![s] = @ \cup {rid}]
                       /\ roomId' = [roomId EXCEPT ![s] = rid]
                       /\ lastAck' = Callback(s, "join-room",
                            [ success |-> TRUE,
                              document |-> added.document,
                              users |-> getUserList(added),
                              user |-> userData,
                              roomStats |-> getStats(added),
                              documentVersion |-> Len(added.operations) ])
                       /\ toClient' =
                            Broadcast(toClient, s, rid, "user-joined",
                              [ user |-> userData,
                                userCount |-> Cardinality(DOMAIN added.users) ])

\* a join-room from the lobby component or from any other client
JoinRoom(s, data) ==
  /\ status[s] = "open"
  /\ toServer[s] = << >>
  /\ JoinRoomHandler(s, data)
  /\ UNCHANGED << now, status, toServer, received, applied, clientVars >>

\* setDoc of the editor component (App.jsx:93) logs the length of content;
\* the editor's text stays what it is
setDoc(text, content) == text

\* the editor component's socket connects and sends join-room for its room
\* (App.jsx:167-178); the server handles it, and the component's callback
\* passes the document of a successful reply to setDoc
EditorJoin(s, data) ==
  /\ status[s] = "open"
  /\ toServer[s] = << >>
  /\ ~isConnected[s]
  /\ isConnected' = [isConnected EXCEPT ![s] = TRUE]
  /\ JoinRoomHandler(s, data)
  /\ editor' = [editor EXCEPT ![s] =
                  IF lastAck'.reply.success THEN setDoc(@, lastAck'.reply.document) ELSE @]
  /\ UNCHANGED << now, status, toServer, received, applied,
                  isApplyingRemoteChange, nextOp >>

\* operation.id || operation.timestamp
operationIdOf(operation) ==
  IF "id" \in DOMAIN operation THEN operation.id
  ELSE IF "timestamp" \in DOMAIN operation THEN operation.timestamp
  ELSE 0

\* socket.on('document-operation') on the payload `operation`
HandleDocumentOperation(s, operation) ==
  LET rid == roomId[s]
  IN  IF rid = Null \/ rid \notin DOMAIN rooms
      THEN UNCHANGED << rooms, now, toClient, applied >>
      ELSE LET room == rooms[rid]
               enhancedOperation ==
                 Spread(operation, [userId |-> s, timestamp |-> now, roomId |-> rid])
           IN  /\ now' = now + 1
               /\ IF ~isValidOperation(room, enhancedOperation)
                  THEN /\ toClient' = Emit(toClient, s, "operation-error",
                            [ error |-> "Invalid operation",
                              operation |-> operation,
                              operationId |-> operationIdOf(operation) ])
                       /\ UNCHANGED << rooms, applied >>
                  ELSE /\ rooms' = [rooms EXCEPT ![rid] = applyOperation(room, enhancedOperation)]
                       /\ applied' = Append(applied,
                            [ operation |-> enhancedOperation,
                              createdAt |-> room.createdAt,
                              members |-> DOMAIN room.users ])
                       /\ toClient' =
                            Emit(Broadcast(toClient, s, rid, "document-update", enhancedOperation),
                                 s, "operation-ack",
                                 [ success |-> TRUE,
                                   operationId |-> operationIdOf(enhancedOperation),
                                   operation |-> enhancedOperation ])

\* the server takes the next document-operation an editor has sent
DocumentOperation(s) ==
  /\ status[s] = "open"
  /\ toServer[s] # << >>
  /\ toServer' = [toServer EXCEPT ![s] = Tail(@)]
  /\ HandleDocumentOperation(s, Head(toServer[s]))
  /\ lastAck' = NoAck
  /\ UNCHANGED << colorIndex, status, roomId, joined, received, clientVars >>

\* a client that is not the editor sends a document-operation of its own
\* making under the next operation id, and the server handles it
SendOperation(s, operation) ==
  /\ status[s] = "open"
  /\ toServer[s] = << >>
  /\ nextOp' = nextOp + 1
  /\ HandleDocumentOperation(s, Spread(operation, [id |-> nextOp + 1]))
  /\ lastAck' = NoAck
  /\ UNCHANGED << colorIndex, status, roomId, joined, toServer, received,
                  editor, isConnected, isApplyingRemoteChange >>

\* socket.on('cursor-position')
CursorPosition(s, position) ==
  /\ status[s] = "open"
  /\ toServer[s] = << >>
  /\ LET rid == roomId[s]
     IN  IF rid = Null \/ rid \notin DOMAIN rooms
         THEN UNCHANGED << rooms, toClient >>
         ELSE IF s \in DOMAIN rooms[rid].users
         THEN LET user == [rooms[rid].users[s] EXCEPT !.cursor = position]
              IN  /\ rooms' = [rooms EXCEPT ![rid].users[s] = user]
                  /\ toClient' = Broadcast(toClient, s, rid, "cursor-update",
                       [userId |-> s, position |-> position, user |-> user])
         ELSE UNCHANGED << rooms, toClient >>
  /\ lastAck' = NoAck
  /\ UNCHANGED << colorIndex, now, status, roomId, joined, toServer, received,
                  applied, clientVars >>

\* socket.on('language-change')
LanguageChange(s, data) ==
  /\ status[s] = "open"
  /\ toServer[s] = << >>
  /\ LET rid == roomId[s]
     IN  IF rid = Null \/ rid \notin DOMAIN rooms
         THEN UNCHANGED toClient
         ELSE IF s \in DOMAIN rooms[rid].users
         THEN toClient' = Broadcast(toClient, s, rid, "language-changed",
                [ userId |-> s,
                  language |-> data.language,
                  userName |-> rooms[rid].users[s].name ])
         ELSE UNCHANGED toClient
  /\ lastAck' = NoAck
  /\ UNCHANGED << rooms, colorIndex, now, status, roomId, joined, toServer, received,
                  applied, clientVars >>

\* Array.prototype.slice(0, n): the first n entries where the code takes the last
SliceFirst(seq, n) ==
  IF Len(seq) <= n THEN seq ELSE SubSeq(seq, 1, n)

\* Array.prototype.slice(-n)
SliceLast(seq, n) ==
  IF Len(seq) <= n THEN seq ELSE SubSeq(seq, Len(seq) - n + 1, Len(seq))

\* socket.on('request-sync')
RequestSync(s) ==
  /\ status[s] = "open"
  /\ toServer[s] = << >>
  /\ LET rid == roomId[s]
     IN  IF rid = Null \/ rid \notin DOMAIN rooms
         THEN toClient' = Emit(toClient, s, "sync-error", [error |-> "Room not found"])
         ELSE toClient' = Emit(toClient, s, "document-sync",
                [ document |-> rooms[rid].document,
                  version |-> Len(rooms[rid].operations),
                  operations |-> SliceLast(rooms[rid].operations, SyncOperations),
                  timestamp |-> now ])
  /\ lastAck' = NoAck
  /\ UNCHANGED << rooms, colorIndex, now, status, roomId, joined, toServer, received,
                  applied, clientVars >>

\* socket.on('disconnect'): the socket has left its adapter rooms, what is in
\* flight either way is dropped, and the client's 'disconnect' handler runs
Disconnect(s) ==
  /\ status[s] = "open"
  /\ status' = [status EXCEPT ![s] = "closed"]
  /\ joined' = [joined EXCEPT ![s] = {}]
  /\ toServer' = [toServer EXCEPT ![s] = << >>]
  /\ isConnected' = [isConnected EXCEPT ![s] = FALSE]
  /\ LET rid == roomId[s]
     IN  IF rid # Null /\ rid \in DOMAIN rooms
         THEN LET room == removeUser(rooms[rid], s)
              IN  /\ toClient' = [Broadcast(toClient, s, rid, "user-left", s) EXCEPT ![s] = << >>]
                  /\ rooms' = IF DOMAIN room.users = {}
                              THEN DeleteRoom(rid)
                              ELSE [rooms EXCEPT ![rid] = room]
         ELSE /\ toClient' = [toClient EXCEPT ![s] = << >>]
              /\ UNCHANGED rooms
  /\ lastAck' = NoAck
  /\ UNCHANGED << colorIndex, now, roomId, received, applied, editor,
                  isApplyingRemoteChange, nextOp >>

\* an exception leaves the listener of the message `name` of socket s. The
\* file registers no 'uncaughtException' handler and no listener is wrapped, so
\* the process ends: the registry is gone with it and every socket is closed
Uncaught(s, name, error) ==
  /\ lastAck' = [to |-> s, request |-> name, uncaught |-> error]
  /\ rooms' = [r \in {} |-> Null]
  /\ status' = [t \in DOMAIN status |-> "closed"]
  /\ roomId' = [t \in DOMAIN status |-> Null]
  /\ joined' = [t \in DOMAIN status |-> {}]
  /\ toServer' = [t \in DOMAIN status |-> << >>]
  /\ toClient' = [t \in DOMAIN status |-> << >>]
  /\ isConnected' = [t \in DOMAIN status |-> FALSE]
  /\ UNCHANGED << colorIndex, now, received, applied, editor,
                  isApplyingRemoteChange, nextOp >>

\* socket.on('join-room') with a null or absent payload: data.roomId is read
\* before the try block is entered
JoinRoomNull(s) ==
  /\ status[s] = "open"
  /\ toServer[s] = << >>
  /\ Uncaught(s, "join-room", "TypeError")

\* socket.on('join-room') without an acknowledgement callback: every path of
\* the try block calls callback(...), and so does the catch block
JoinRoomNoCallback(s, data) ==
  /\ status[s] = "open"
  /\ toServer[s] = << >>
  /\ Uncaught(s, "join-room", "TypeError")

\* socket.on('document-operation') with a null or absent payload: a socket in
\* no room is ignored; otherwise the operation is invalid, and the catch block
\* reads operation.id
DocumentOperationNull(s) ==
  /\ status[s] = "open"
  /\ toServer[s] = << >>
  /\ IF roomId[s] = Null \/ roomId[s] \notin DOMAIN rooms
     THEN /\ lastAck' = NoAck
          /\ UNCHANGED << serverVars, status, toServer, toClient, received, clientVars >>
     ELSE Uncaught(s, "document-operation", "TypeError")

\* socket.on('language-change') with a null or absent payload: a socket that is
\* no member is ignored; otherwise data.language is read
LanguageChangeNull(s) ==
  /\ status[s] = "open"
  /\ toServer[s] = << >>
  /\ IF roomId[s] = Null \/ roomId[s] \notin DOMAIN rooms
        \/ s \notin DOMAIN rooms[roomId[s]].users
     THEN /\ lastAck' = NoAck
          /\ UNCHANGED << serverVars, status, toServer, toClient, received, clientVars >>
     ELSE Uncaught(s, "language-change", "TypeError")

\* ------------------------------------------------------------------- http

\* the handler of the first app.get('/health', ...)
healthBasic ==
  [ status |-> "ok",
    rooms |-> Cardinality(DOMAIN rooms),
    timestamp |-> now ]

\* Array.from(rooms.values()).map(room => room.getStats()): the rooms in the
\* order they were put into the registry
RECURSIVE roomStats(_)
roomStats(ids) ==
  IF ids = {} THEN << >>
  ELSE LET r == CHOOSE x \in ids : \A y \in ids : rooms[x].createdAt <= rooms[y].createdAt
       IN  << getStats(rooms[r]) >> \o roomStats(ids \ {r})

\* the handler of the second app.get('/health', ...)
healthEnhanced ==
  [ status |-> "ok",
    timestamp |-> now,
    server |-> [rooms |-> Cardinality(DOMAIN rooms)],
    rooms |-> roomStats(DOMAIN rooms) ]

\* the GET routes in the order the file registers them
Routes ==
  << [path |-> "/health", handler |-> "healthBasic"],
     [path |-> "/health", handler |-> "healthEnhanced"] >>

\* the router runs the first route that matches the path; a handler that
\* answers with res.json and does not call next() ends the request
Dispatch(path) ==
  LET i == CHOOSE k \in DOMAIN Routes :
             /\ Routes[k].path = path
             /\ \A j \in DOMAIN Routes : j < k => Routes[j].path # path
  IN  Routes[i].handler

\* GET /health
GetHealth ==
  /\ lastAck' = [ to |-> 0, request |-> "GET /health",
                  reply |-> IF Dispatch("/health") = "healthBasic"
                            THEN healthBasic ELSE healthEnhanced ]
  /\ UNCHANGED << serverVars, status, toServer, toClient, received, clientVars >>

\* ---------------------------------------------------------------- client

\* what the update listener pushes for one changed range
\* (useSimpleCodeMirror.js:59-82), with ids first and first + 1
ChangeToOperations(fromA, toA, inserted, first) ==
  (IF fromA # toA
   THEN << [type |-> "delete", position |-> fromA, length |-> toA - fromA, id |-> first] >>
   ELSE << >>)
  \o
  (IF Len(inserted) > 0
   THEN << [ type |-> "insert", position |-> fromA, content |-> inserted,
             id |-> IF fromA # toA THEN first + 1 ELSE first ] >>
   ELSE << >>)

\* the user replaces editor[fromA, toA) by inserted
LocalEdit(s, fromA, toA, inserted) ==
  /\ status[s] = "open"
  /\ isConnected[s]
  /\ fromA <= toA /\ toA <= Len(editor[s])
  /\ fromA # toA \/ Len(inserted) > 0
  /\ editor' = [editor EXCEPT ![s] =
                  Slice(@, 0, fromA) \o inserted \o SliceFrom(@, toA)]
  /\ IF isApplyingRemoteChange[s]
     THEN UNCHANGED << toServer, nextOp >>
     ELSE LET operations == ChangeToOperations(fromA, toA, inserted, nextOp + 1)
          IN  /\ nextOp' = nextOp + Len(operations)
              /\ toServer' = [toServer EXCEPT ![s] = @ \o operations]
  /\ lastAck' = NoAck
  /\ UNCHANGED << serverVars, status, toClient, received, isConnected,
                  isApplyingRemoteChange >>

\* what the update listener pushes for the changed ranges of one transaction:
\* iterChanges visits them in ascending order, each with its extent in the
\* text before the transaction
RECURSIVE ChangesToOperations(_, _)
ChangesToOperations(changes, first) ==
  IF changes = << >> THEN << >>
  ELSE LET c == Head(changes)
           operations == ChangeToOperations(c.fromA, c.toA, c.inserted, first)
       IN  operations \o ChangesToOperations(Tail(changes), first + Len(operations))

\* the text after a transaction: every range [fromA, toA) of the text before
\* it is replaced by its inserted text
RECURSIVE ApplyChanges(_, _)
ApplyChanges(doc, changes) ==
  IF changes = << >> THEN doc
  ELSE LET c == changes[Len(changes)]
       IN  ApplyChanges(Slice(doc, 0, c.fromA) \o c.inserted \o SliceFrom(doc, c.toA),
                        SubSeq(changes, 1, Len(changes) - 1))

\* the user's transaction replaces one or several ranges of the editor's text
LocalTransaction(s, changes) ==
  /\ status[s] = "open"
  /\ isConnected[s]
  /\ editor' = [editor EXCEPT ![s] = ApplyChanges(@, changes)]
  /\ IF isApplyingRemoteChange[s]
     THEN UNCHANGED << toServer, nextOp >>
     ELSE LET operations == ChangesToOperations(changes, nextOp + 1)
          IN  /\ nextOp' = nextOp + Len(operations)
              /\ toServer' = [toServer EXCEPT ![s] = @ \o operations]
  /\ lastAck' = NoAck
  /\ UNCHANGED << serverVars, status, toClient, received, isConnected,
                  isApplyingRemoteChange >>

\* applyRemoteChange (useSimpleCodeMirror.js:141-199) on the editor's text
applyRemoteChange(doc, operation) ==
  CASE operation.type = "insert" ->
         IF operation.position <= Len(doc)
         THEN Slice(doc, 0, operation.position) \o operation.content
                \o SliceFrom(doc, operation.position)
         ELSE doc
    [] operation.type = "delete" ->
         IF operation.position + operation.length <= Len(doc)
         THEN Slice(doc, 0, operation.position)
                \o SliceFrom(doc, operation.position + operation.length)
         ELSE doc
    [] OTHER -> doc

OperationMessages == {"document-update", "operation-ack", "operation-error"}

\* what the client logs of an operation message
Logged(m) ==
  [ name |-> m.name,
    operationId |-> IF m.name = "document-update" THEN operationIdOf(m.data)
                    ELSE m.data.operationId ]

\* the flag as the update listener reads it while a remote change is being
\* dispatched, had applyRemoteChange not set it first
FlagAtDispatchUnset(s) == isApplyingRemoteChange[s]

\* the flag as the update listener reads it while a remote change is being
\* dispatched: applyRemoteChange has set it (useSimpleCodeMirror.js:152)
FlagAtDispatch(s) == TRUE

\* what the update listener pushes when applyRemoteChange dispatches the
\* operation into the text doc: the dispatch runs the listener, and the
\* listener returns at once when the flag is set
DispatchedOperations(s, doc, operation, first) ==
  IF FlagAtDispatch(s) THEN << >>
  ELSE CASE operation.type = "insert" /\ operation.position <= Len(doc) ->
              ChangeToOperations(operation.position, operation.position,
                                 operation.content, first)
         [] operation.type = "delete"
              /\ operation.position + operation.length <= Len(doc) ->
              ChangeToOperations(operation.position,
                                 operation.position + operation.length, << >>, first)
         [] OTHER -> << >>

\* the client handles the next server message; where the editor component is
\* mounted, document-update is applied to the editor (App.jsx:264-271) and the
\* document of a document-sync is passed to setDoc (App.jsx:302-308)
ClientReceive(s) ==
  /\ status[s] = "open"
  /\ toClient[s] # << >>
  /\ LET m == Head(toClient[s])
     IN  /\ toClient' = [toClient EXCEPT ![s] = Tail(@)]
         /\ received' = [received EXCEPT ![s] =
                           IF m.name \in OperationMessages THEN Append(@, Logged(m)) ELSE @]
         /\ IF m.name = "document-update" /\ isConnected[s]
            THEN LET operations == DispatchedOperations(s, editor[s], m.data, nextOp + 1)
                 IN  /\ editor' = [editor EXCEPT ![s] = applyRemoteChange(@, m.data)]
                     /\ isApplyingRemoteChange' = [isApplyingRemoteChange EXCEPT ![s] = TRUE]
                     /\ nextOp' = nextOp + Len(operations)
                     /\ toServer' = [toServer EXCEPT ![s] = @ \o operations]
            ELSE /\ editor' = [editor EXCEPT ![s] =
                             IF m.name = "document-sync" /\ isConnected[s]
                             THEN setDoc(@, m.data.document) ELSE @]
                 /\ UNCHANGED << isApplyingRemoteChange, nextOp, toServer >>
  /\ lastAck' = NoAck
  /\ UNCHANGED << serverVars, status, isConnected >>

\* the 10 ms timer of applyRemoteChange's finally block fires
ResetFlag(s) ==
  /\ isApplyingRemoteChange[s]
  /\ isApplyingRemoteChange' = [isApplyingRemoteChange EXCEPT ![s] = FALSE]
  /\ lastAck' = NoAck
  /\ UNCHANGED << serverVars, status, toServer, toClient, received, editor,
                  isConnected, nextOp >>

\* ------------------------------------------- the client's operations module

Min(a, b) == IF a <= b THEN a ELSE b

\* applyInsert throws
applyInsertThrows(document, operation) ==
  operation.position < 0 \/ operation.position > Len(document)

\* applyDelete throws
applyDeleteThrows(document, operation) ==
  \/ operation.position < 0 \/ operation.position >= Len(document)
  \/ operation.length <= 0 \/ operation.position + operation.length > Len(document)

\* applyOperation of utils/operations.js: the document after the operation,
\* and the document itself where applyInsert or applyDelete throws
applyOperationToString(document, operation) ==
  CASE operation.type = "insert" ->
         IF applyInsertThrows(document, operation) THEN document
         ELSE Slice(document, 0, operation.position) \o operation.content
                \o SliceFrom(document, operation.position)
    [] operation.type = "delete" ->
         IF applyDeleteThrows(document, operation) THEN document
         ELSE Slice(document, 0, operation.position)
                \o SliceFrom(document, operation.position + operation.length)
    [] OTHER -> document

transformInsertInsert(op1, op2, op1HasPriority) ==
  IF op2.position <= op1.position
  THEN [op1 EXCEPT !.position = op1.position + Len(op2.content)]
  ELSE IF op2.position = op1.position /\ ~op1HasPriority
  THEN [op1 EXCEPT !.position = op1.position + Len(op2.content)]
  ELSE op1

transformInsertDelete(insertOp, deleteOp) ==
  IF deleteOp.position + deleteOp.length <= insertOp.position
  THEN [insertOp EXCEPT !.position = insertOp.position - deleteOp.length]
  ELSE IF deleteOp.position < insertOp.position
  THEN [insertOp EXCEPT !.position = deleteOp.position]
  ELSE insertOp

transformDeleteInsert(deleteOp, insertOp) ==
  IF insertOp.position <= deleteOp.position
  THEN [deleteOp EXCEPT !.position = deleteOp.position + Len(insertOp.content)]
  ELSE IF insertOp.position < deleteOp.position + deleteOp.length
  THEN [deleteOp EXCEPT !.length = deleteOp.length + Len(insertOp.content)]
  ELSE deleteOp

transformDeleteDelete(op1, op2, op1HasPriority) ==
  LET op1End == op1.position + op1.length
      op2End == op2.position + op2.length
  IN  IF op2End <= op1.position
      THEN [op1 EXCEPT !.position = op1.position - op2.length]
      ELSE IF op2.position >= op1End
      THEN op1
      ELSE IF op2.position <= op1.position /\ op2End >= op1End
      THEN [op1 EXCEPT !.length = 0]
      ELSE IF op1.position <= op2.position /\ op1End >= op2End
      THEN [op1 EXCEPT !.length = op1.length - op2.length]
      ELSE IF op1HasPriority
      THEN op1
      ELSE IF op2.position < op1.position
      THEN [op1 EXCEPT !.position = op2.position,
                       !.length = op1.length - (Min(op1End, op2End) - op1.position)]
      ELSE [op1 EXCEPT !.length = op1.length - (Min(op1End, op2End) - op2.position)]

transformOperation(op1, op2, op1HasPriority) ==
  IF op1.userId = op2.userId THEN op1
  ELSE IF op1.type = "insert" /\ op2.type = "insert"
  THEN transformInsertInsert(op1, op2, op1HasPriority)
  ELSE IF op1.type = "insert" /\ op2.type = "delete"
  THEN transformInsertDelete(op1, op2)
  ELSE IF op1.type = "delete" /\ op2.type = "insert"
  THEN transformDeleteInsert(op1, op2)
  ELSE IF op1.type = "delete" /\ op2.type = "delete"
  THEN transformDeleteDelete(op1, op2, op1HasPriority)
  ELSE op1

\* validateOperation of utils/operations.js for an operation object
validateOperation(operation, document) ==
  IF ~("type" \in DOMAIN operation /\ operation.type \in {"insert", "delete", "retain"})
  THEN FALSE
  ELSE IF ~("position" \in DOMAIN operation) \/ operation.position < 0
  THEN FALSE
  ELSE CASE operation.type = "insert" ->
              /\ "content" \in DOMAIN operation
              /\ Len(operation.content) > 0
              /\ operation.position <= Len(document)
         [] operation.type = "delete" ->
              /\ "length" \in DOMAIN operation
              /\ operation.length > 0
              /\ operation.position + operation.length <= Len(document)
         [] operation.type = "retain" ->
              "length" \in DOMAIN operation /\ operation.length > 0

\* a composition of two inserts that puts the later content first
tryComposeTwoSwapped(op1, op2) ==
  IF op1.userId # op2.userId THEN << >>
  ELSE IF /\ op1.type = "insert" /\ op2.type = "insert"
          /\ op1.position + Len(op1.content) = op2.position
  THEN << [op1 EXCEPT !.content = op2.content \o op1.content] >>
  ELSE IF op1.type = "delete" /\ op2.type = "delete" /\ op1.position = op2.position
  THEN << [op1 EXCEPT !.length = op1.length + op2.length] >>
  ELSE << >>

\* tryComposeTwo: the composed operation as a one-element sequence, and the
\* empty sequence for null (the operations of the model carry no timestamp)
tryComposeTwo(op1, op2) ==
  IF op1.userId # op2.userId THEN << >>
  ELSE IF /\ op1.type = "insert" /\ op2.type = "insert"
          /\ op1.position + Len(op1.content) = op2.position
  THEN << [op1 EXCEPT !.content = op1.content \o op2.content] >>
  ELSE IF op1.type = "delete" /\ op2.type = "delete" /\ op1.position = op2.position
  THEN << [op1 EXCEPT !.length = op1.length + op2.length] >>
  ELSE << >>

\* the loop of composeOperations from operations[i] on
RECURSIVE composeLoop(_, _, _, _)
composeLoop(operations, i, composed, current) ==
  IF i > Len(operations) THEN Append(composed, current)
  ELSE LET composedOp == tryComposeTwo(current, operations[i])
       IN  IF composedOp # << >>
           THEN composeLoop(operations, i + 1, composed, composedOp[1])
           ELSE composeLoop(operations, i + 1, Append(composed, current), operations[i])

composeOperations(operations) ==
  IF Len(operations) <= 1 THEN operations
  ELSE composeLoop(operations, 2, << >>, operations[1])

\* DocumentState.applyLocalOperation of an operation that is valid on the
\* content: it is applied and joins the pending operations
applyLocalOperation(operation) ==
  /\ validateOperation(operation, editor[1])
  /\ editor' = [editor EXCEPT ![1] = applyOperationToString(@, operation)]
  /\ toServer' = [toServer EXCEPT ![1] = Append(@, operation)]
  /\ nextOp' = nextOp + 1
  /\ lastAck' = NoAck
  /\ UNCHANGED << serverVars, status, toClient, received, isConnected,
                  isApplyingRemoteChange >>

\* the pending operations are composed and sent on to the second replica
SendComposed ==
  /\ toServer[1] # << >>
  /\ toClient' = [toClient EXCEPT ![2] = @ \o composeOperations(toServer[1])]
  /\ toServer' = [toServer EXCEPT ![1] = << >>]
  /\ lastAck' = NoAck
  /\ UNCHANGED << serverVars, status, received, clientVars >>

\* the second replica applies the next operation it was sent
Replay ==
  /\ toClient[2] # << >>
  /\ editor' = [editor EXCEPT ![2] = applyOperationToString(@, Head(toClient[2]))]
  /\ toClient' = [toClient EXCEPT ![2] = Tail(@)]
  /\ received' = [received EXCEPT ![2] = Append(@, Head(toClient[2]))]
  /\ lastAck' = NoAck
  /\ UNCHANGED << serverVars, status, toServer, isConnected,
                  isApplyingRemoteChange, nextOp >>

\* a replica applies the operation its own user has made
ApplyOwn(s) ==
  /\ received[s] = << >>
  /\ editor' = [editor EXCEPT ![s] = applyOperationToString(@, toServer[s][1])]
  /\ received' = [received EXCEPT ![s] = << toServer[s][1] >>]
  /\ lastAck' = NoAck
  /\ UNCHANGED << serverVars, status, toServer, toClient, isConnected,
                  isApplyingRemoteChange, nextOp >>

\* a replica that has applied its own operation applies the other user's,
\* transformed against its own; the operation of user 1 has the priority
ApplyOther(s) ==
  /\ Len(received[s]) = 1
  /\ \E t \in DOMAIN status \ {s} :
       LET transformed == transformOperation(toServer[t][1], toServer[s][1], t = 1)
       IN  /\ editor' = [editor EXCEPT ![s] = applyOperationToString(@, transformed)]
           /\ received' = [received EXCEPT ![s] = Append(@, transformed)]
  /\ lastAck' = NoAck
  /\ UNCHANGED << serverVars, status, toServer, toClient, isConnected,
                  isApplyingRemoteChange, nextOp >>

\* ------------------------------------------------------------------ inputs

\* create-room as the lobby sends it with the name field left empty
CreatePayloads == { [userName |-> Null] }

JoinPayloads ==
  { [roomId |-> "abc123", userName |-> "Zed"],
    [string |-> "XYZ789"] }

Inserted == { << >>, << "x" >> }

RawOperations ==
  { [type |-> "insert", position |-> 0, content |-> << "x" >>],
    [type |-> "delete", position |-> 1, length |-> 1],
    [type |-> "retain", position |-> 0, length |-> 1],
    [type |-> "delete", position |-> 0, length |-> 0] }

\* ------------------------------------------------------------- protocol runs

\* sockets that speak the protocol without an editor; a socket creates a room
\* while it is in none
Next ==
  \/ \E s \in Sessions, data \in CreatePayloads, id \in RoomIds :
       roomId[s] = Null /\ CreateRoom(s, data, id)
  \/ \E s \in Sessions, data \in JoinPayloads : JoinRoom(s, data)
  \/ \E s \in Sessions, operation \in RawOperations :
       nextOp < MaxOps /\ SendOperation(s, operation)
  \/ \E s \in Sessions : Disconnect(s)
  \/ \E s \in Sessions : ClientReceive(s)

Spec == Init /\ [][Next]_vars

\* ------------------------------------------------------------ validity runs

ProbePositions == -1..(Len(WelcomeDocument) + MaxOps)
ProbeLengths == -1..(Len(WelcomeDocument) + 1)

\* operation payloads of every type, with every position and length around the
\* document's ends, and with the fields a type needs present, empty or absent
ProbeOperations ==
  { [type |-> "insert", position |-> p, content |-> c] :
      p \in ProbePositions, c \in {<< >>, << "x" >>} }
  \cup { [type |-> "insert", position |-> p] : p \in ProbePositions }
  \cup { [type |-> ty, position |-> p, length |-> n] :
           ty \in {"delete", "retain"}, p \in ProbePositions, n \in ProbeLengths }
  \cup { [type |-> ty, position |-> p] : ty \in {"delete", "retain"}, p \in ProbePositions }
  \cup { [type |-> ty, length |-> 1, content |-> << "x" >>] : ty \in {"insert", "delete", "retain"} }
  \cup { [type |-> "bogus", position |-> 0, length |-> 1, content |-> << "x" >>],
         [position |-> 0, length |-> 1, content |-> << "x" >>] }

\* one socket creates a room and sends operations of every shape, each after
\* it has handled the reply to the one before
NextValidate ==
  \/ \E data \in CreatePayloads, id \in RoomIds :
       DOMAIN rooms = {} /\ CreateRoom(1, data, id)
  \/ \E operation \in ProbeOperations :
       nextOp < MaxOps /\ toClient[1] = << >> /\ SendOperation(1, operation)
  \/ ClientReceive(1)

SpecValidate == Init /\ [][NextValidate]_vars

\* ----------------------------------------------------------- delivery runs

DeliveryPayload == [roomId |-> "abc123", userName |-> "Zed"]

DeliveryOperations ==
  { [type |-> "insert", position |-> 0, content |-> << "x" >>],
    [type |-> "delete", position |-> 0, length |-> 0] }

\* two sockets and one room: create, join, operations, leaving and delivery
NextDelivery ==
  \/ \E s \in Sessions, data \in CreatePayloads :
       roomId[s] = Null /\ DOMAIN rooms = {} /\ CreateRoom(s, data, "ABC123")
  \/ \E s \in Sessions :
       roomId[s] = Null /\ JoinRoom(s, DeliveryPayload)
  \/ \E s \in Sessions, operation \in DeliveryOperations :
       roomId[s] # Null /\ nextOp < MaxOps + 1 /\ SendOperation(s, operation)
  \/ \E s \in Sessions : Disconnect(s)
  \/ \E s \in Sessions : ClientReceive(s)

\* a socket that stays open handles what is sent to it
FairSpec ==
  Init /\ [][NextDelivery]_vars /\ \A s \in Sessions : WF_vars(ClientReceive(s))

\* -------------------------------------------------------------- editor runs

Editors == EditorSessions \ {1}

\* join-room as the editor component sends it (App.jsx:178)
EditorJoinPayload(id) == [roomId |-> id, userName |-> Null]

\* socket 1 is the lobby's: it creates the room and stays connected; sockets 2
\* and 3 are those of two editor components opened on that room
NextEditor ==
  \/ \E data \in CreatePayloads :
       DOMAIN rooms = {} /\ CreateRoom(1, data, "ABC123")
  \/ \E s \in Editors :
       "ABC123" \in DOMAIN rooms /\ EditorJoin(s, EditorJoinPayload("ABC123"))
  \/ \E s \in Editors, fromA \in 0..MaxDocLen, toA \in 0..MaxDocLen, inserted \in Inserted :
       /\ toA - fromA <= 1
       /\ Len(editor[s]) - (toA - fromA) + Len(inserted) <= MaxDocLen
       /\ nextOp + Len(ChangeToOperations(fromA, toA, inserted, 0)) <= MaxOps
       /\ LocalEdit(s, fromA, toA, inserted)
  \/ \E s \in Editors : DocumentOperation(s)
  \/ \E s \in EditorSessions : ClientReceive(s)
  \/ \E s \in Editors : ResetFlag(s)

SpecEditor == InitWith(EditorSessions) /\ [][NextEditor]_vars

\* -------------------------------------------------------------- echo runs

\* the lobby's socket creates the room and two editor components open on it;
\* each user types at the front of the text or removes its first character
NextEcho ==
  \/ \E data \in CreatePayloads :
       DOMAIN rooms = {} /\ CreateRoom(1, data, "ABC123")
  \/ \E s \in Editors :
       "ABC123" \in DOMAIN rooms /\ EditorJoin(s, EditorJoinPayload("ABC123"))
  \/ \E s \in Editors, toA \in 0..1, inserted \in Inserted :
       /\ Len(inserted) = 0 <=> toA = 1
       /\ Len(editor[s]) - toA + Len(inserted) <= MaxDocLen
       /\ nextOp + 1 <= MaxOps
       /\ LocalEdit(s, 0, toA, inserted)
  \/ \E s \in Editors : DocumentOperation(s)
  \/ \E s \in EditorSessions : ClientReceive(s)
  \/ \E s \in Editors : ResetFlag(s)

SpecEcho == InitWith(EditorSessions) /\ [][NextEcho]_vars

\* ------------------------------------------------------------ capacity runs

CapacityPayload == [roomId |-> "ABC123", userName |-> "Zed"]

\* the lowest-numbered open socket that is bound to no room
NextToJoin(s) ==
  /\ status[s] = "open" /\ roomId[s] = Null
  /\ \A t \in CapacitySessions : (status[t] = "open" /\ roomId[t] = Null) => s <= t

Leaves == Cardinality({s \in CapacitySessions : status[s] = "closed"})

\* one more socket than a room holds; the sockets ask for the one room in
\* turn, and a refused socket asks again
NextCapacity ==
  \/ \E s \in CapacitySessions, data \in CreatePayloads :
       DOMAIN rooms = {} /\ NextToJoin(s) /\ CreateRoom(s, data, "ABC123")
  \/ \E s \in CapacitySessions :
       NextToJoin(s) /\ colorIndex < MaxColorIndex /\ JoinRoom(s, CapacityPayload)
  \/ \E s \in CapacitySessions :
       Leaves < MaxLeaves /\ Disconnect(s)

SpecCapacity == InitWith(CapacitySessions) /\ [][NextCapacity]_vars

\* ------------------------------------------------------------- history runs

\* the n-th operation of a long run: an insert at the front, then its removal
HistoryOperation(n) ==
  IF n % 2 = 0
  THEN [type |-> "insert", position |-> 0, content |-> << "x" >>]
  ELSE [type |-> "delete", position |-> 0, length |-> 1]

\* one socket creates a room and sends it more operations than the history keeps
NextHistory ==
  \/ \E data \in CreatePayloads :
       DOMAIN rooms = {} /\ CreateRoom(1, data, "ABC123")
  \/ /\ roomId[1] # Null
     /\ nextOp < MaxHistory + MaxOps
     /\ SendOperation(1, HistoryOperation(nextOp))

SpecHistory == Init /\ [][NextHistory]_vars

\* --------------------------------------------------------------- lobby runs

\* Math.random().toString(36) for three outcomes of Math.random(): two with a
\* long expansion in base 36, and 0.5, which is "0.i"
RandomStrings ==
  { << "0", ".", "a", "b", "c", "1", "2", "3", "x" >>,
    << "0", ".", "x", "y", "z", "7", "8", "9" >>,
    << "0", ".", "i" >> }

\* random.substring(2, 8).toUpperCase()
generateRoomId(random) ==
  LET sub == Slice(random, 2, 8)
  IN  Text([i \in DOMAIN sub |-> UpperChar(sub[i])])

\* join-room payloads with ids of every shape
LobbyPayloads ==
  { [roomId |-> "abc123", userName |-> "Zed"],
    [roomId |-> "abc-12"],
    [roomId |-> "I"],
    [roomId |-> ""] }

\* sockets that create rooms, join rooms and leave, in any order
NextLobby ==
  \/ \E s \in Sessions, data \in CreatePayloads, random \in RandomStrings :
       now <= MaxCreates /\ CreateRoom(s, data, generateRoomId(random))
  \/ \E s \in Sessions, data \in LobbyPayloads : JoinRoom(s, data)
  \/ \E s \in Sessions : Disconnect(s)

SpecLobby == Init /\ [][NextLobby]_vars

\* --------------------------------------------------------- room-scoped runs

CursorPositions == { [line |-> 1, column |-> 2] }

LanguagePayloads == { [language |-> "python"] }

RECURSIVE SumOfLengths(_, _)
SumOfLengths(queues, S) ==
  IF S = {} THEN 0
  ELSE LET s == CHOOSE x \in S : TRUE
       IN  Len(queues[s]) + SumOfLengths(queues, S \ {s})

\* the server messages that no client has handled yet
InFlight == SumOfLengths(toClient, DOMAIN toClient)

\* two sockets and one room; every room-scoped message, from sockets that are
\* in the room and from sockets that are in none
NextRoomScoped ==
  \/ \E s \in Sessions, data \in CreatePayloads :
       roomId[s] = Null /\ DOMAIN rooms = {} /\ CreateRoom(s, data, "ABC123")
  \/ \E s \in Sessions :
       roomId[s] = Null /\ JoinRoom(s, DeliveryPayload)
  \/ \E s \in Sessions, operation \in DeliveryOperations :
       nextOp < MaxOps /\ SendOperation(s, operation)
  \/ \E s \in Sessions, position \in CursorPositions :
       InFlight < MaxInFlight /\ CursorPosition(s, position)
  \/ \E s \in Sessions, data \in LanguagePayloads :
       InFlight < MaxInFlight /\ LanguageChange(s, data)
  \/ \E s \in Sessions :
       InFlight < MaxInFlight /\ RequestSync(s)
  \/ \E s \in Sessions : ClientReceive(s)
  \/ \E s \in Sessions : Disconnect(s)

SpecRoomScoped == Init /\ [][NextRoomScoped]_vars

\* ----------------------------------------------------------------- sync runs

\* one socket creates a room, another may join it before the first operation;
\* the creator sends more operations than a document-sync carries, and either
\* socket asks for a sync whenever nothing is in flight
NextSync ==
  \/ \E data \in CreatePayloads :
       DOMAIN rooms = {} /\ CreateRoom(1, data, "ABC123")
  \/ /\ roomId[2] = Null
     /\ nextOp = 0
     /\ InFlight = 0
     /\ JoinRoom(2, DeliveryPayload)
  \/ /\ roomId[1] # Null
     /\ InFlight = 0
     /\ nextOp < SyncOperations + MaxOps
     /\ SendOperation(1, HistoryOperation(nextOp))
  \/ \E s \in Sessions :
       InFlight = 0 /\ RequestSync(s)
  \/ \E s \in Sessions : ClientReceive(s)

SpecSync == Init /\ [][NextSync]_vars

\* -------------------------------------------------------------- forged runs

\* an insert or a delete whose payload names the other socket as its user, the
\* room the sender is not in as its room, and a time of its own
ForgedOperations(s) ==
  LET forged == [ userId |-> CHOOSE t \in Sessions : t # s,
                  roomId |-> CHOOSE r \in RoomIds : r # roomId[s],
                  timestamp |-> 0 ]
  IN  { Spread([type |-> "insert", position |-> 0, content |-> << "x" >>], forged),
        Spread([type |-> "delete", position |-> 0, length |-> 1], forged) }

\* two sockets and two rooms: a socket creates a room or joins "ABC123", and
\* every operation it sends is forged
NextForged ==
  \/ \E s \in Sessions, data \in CreatePayloads, id \in RoomIds :
       roomId[s] = Null /\ id \notin DOMAIN rooms /\ CreateRoom(s, data, id)
  \/ \E s \in Sessions :
       roomId[s] = Null /\ JoinRoom(s, DeliveryPayload)
  \/ \E s \in Sessions :
       /\ roomId[s] # Null
       /\ nextOp < MaxOps
       /\ \E operation \in ForgedOperations(s) : SendOperation(s, operation)
  \/ \E s \in Sessions : ClientReceive(s)
  \/ \E s \in Sessions : Disconnect(s)

SpecForged == Init /\ [][NextForged]_vars

\* ----------------------------------------------------------- malformed runs

\* two sockets and one room; besides the well-formed messages, messages with a
\* null payload and a join-room without a callback
NextMalformed ==
  \/ \E s \in Sessions, data \in CreatePayloads :
       roomId[s] = Null /\ DOMAIN rooms = {} /\ CreateRoom(s, data, "ABC123")
  \/ \E s \in Sessions :
       roomId[s] = Null /\ JoinRoom(s, DeliveryPayload)
  \/ \E s \in Sessions, operation \in DeliveryOperations :
       nextOp < MaxOps /\ SendOperation(s, operation)
  \/ \E s \in Sessions : ClientReceive(s)
  \/ \E s \in Sessions : Disconnect(s)
  \/ \E s \in Sessions : JoinRoomNull(s)
  \/ \E s \in Sessions : JoinRoomNoCallback(s, DeliveryPayload)
  \/ \E s \in Sessions : DocumentOperationNull(s)
  \/ \E s \in Sessions : LanguageChangeNull(s)

SpecMalformed == Init /\ [][NextMalformed]_vars

\* ------------------------------------------------------ long-document runs

LongInsert == [type |-> "insert", position |-> 0, content |-> << "a", "b", "c" >>]

\* two sockets and one room; the members insert three code units at a time
\* until the document has passed the longest string
NextLong ==
  \/ \E s \in Sessions, data \in CreatePayloads :
       roomId[s] = Null /\ DOMAIN rooms = {} /\ CreateRoom(s, data, "ABC123")
  \/ \E s \in Sessions :
       roomId[s] = Null /\ JoinRoom(s, DeliveryPayload)
  \/ \E s \in Sessions :
       roomId[s] # Null /\ nextOp < MaxOps + 1 /\ SendOperation(s, LongInsert)
  \/ \E s \in Sessions : ClientReceive(s)
  \/ \E s \in Sessions : Disconnect(s)

SpecLong == Init /\ [][NextLong]_vars

\* ---------------------------------------------------------------- http runs

\* sockets create rooms, join and leave, and the health endpoint is read at
\* any time
NextHttp ==
  \/ \E s \in Sessions, data \in CreatePayloads, id \in RoomIds :
       roomId[s] = Null /\ id \notin DOMAIN rooms /\ now <= MaxCreates
         /\ CreateRoom(s, data, id)
  \/ \E s \in Sessions :
       roomId[s] = Null /\ JoinRoom(s, DeliveryPayload)
  \/ \E s \in Sessions, operation \in DeliveryOperations :
       roomId[s] # Null /\ nextOp < MaxOps /\ SendOperation(s, operation)
  \/ \E s \in Sessions : ClientReceive(s)
  \/ \E s \in Sessions : Disconnect(s)
  \/ GetHealth

SpecHttp == Init /\ [][NextHttp]_vars

\* ------------------------------------------------------------ fraction runs

\* operations with a position or a length of one half: an insert at 0.5, a
\* delete of 0.5 units at 0, a delete of 0.5 units at 0.5, a retain of 0.5
FractionalOperations ==
  { [type |-> "insert", position |-> 0, positionHalf |-> TRUE, content |-> << "x" >>],
    [type |-> "delete", position |-> 0, length |-> 0, lengthHalf |-> TRUE],
    [type |-> "delete", position |-> 0, positionHalf |-> TRUE,
     length |-> 0, lengthHalf |-> TRUE],
    [type |-> "retain", position |-> 0, length |-> 0, lengthHalf |-> TRUE] }

\* two sockets and one room; the members send operations with whole and with
\* fractional numbers
NextFraction ==
  \/ \E s \in Sessions, data \in CreatePayloads :
       roomId[s] = Null /\ DOMAIN rooms = {} /\ CreateRoom(s, data, "ABC123")
  \/ \E s \in Sessions :
       roomId[s] = Null /\ JoinRoom(s, DeliveryPayload)
  \/ \E s \in Sessions, operation \in FractionalOperations \cup DeliveryOperations :
       roomId[s] # Null /\ nextOp < MaxOps /\ SendOperation(s, operation)
  \/ \E s \in Sessions : ClientReceive(s)
  \/ \E s \in Sessions : Disconnect(s)

SpecFraction == Init /\ [][NextFraction]_vars

\* ------------------------------------------------------ transformation runs

Alphabet == << "a", "b", "c", "d", "e" >>

\* the documents two users start from
Documents == { SubSeq(Alphabet, 1, n) : n \in 0..MaxDocLen }

\* what a user inserts: no two users insert the same text
Contents(userId) == IF userId = 1 THEN { << "x" >>, << "w" >> } ELSE { << "y", "z" >> }

\* the inserts and deletes of a user that are valid on a document
OperationsOn(document, userId) ==
  { operation \in
      { [type |-> "insert", position |-> p, content |-> c, userId |-> userId] :
          p \in 0..Len(document), c \in Contents(userId) }
      \cup
      { [type |-> "delete", position |-> p, length |-> l, userId |-> userId] :
          p \in 0..Len(document), l \in 1..2 } :
      validateOperation(operation, document) }

\* two users hold the same document, and each has made one operation on it
InitTransform ==
  /\ rooms = [r \in {} |-> Null]
  /\ colorIndex = 0
  /\ now = 1
  /\ status = [s \in Sessions |-> "open"]
  /\ roomId = [s \in Sessions |-> Null]
  /\ joined = [s \in Sessions |-> {}]
  /\ \E document \in Documents :
       /\ editor = [s \in Sessions |-> document]
       /\ \E a \in OperationsOn(document, 1), b \in OperationsOn(document, 2) :
            toServer = [s \in Sessions |-> IF s = 1 THEN << a >> ELSE << b >>]
  /\ toClient = [s \in Sessions |-> << >>]
  /\ lastAck = NoAck
  /\ received = [s \in Sessions |-> << >>]
  /\ isConnected = [s \in Sessions |-> FALSE]
  /\ isApplyingRemoteChange = [s \in Sessions |-> FALSE]
  /\ nextOp = 0
  /\ applied = << >>

NextTransform ==
  \/ \E s \in Sessions : ApplyOwn(s)
  \/ \E s \in Sessions : ApplyOther(s)

SpecTransform == InitTransform /\ [][NextTransform]_vars

\* --------------------------------------------------------- composition runs

\* the empty document and one that leaves room for inserts
ComposeDocuments == { << >>, SubSeq(Alphabet, 1, MaxDocLen - 1) }

\* two replicas hold the same document
InitCompose ==
  /\ rooms = [r \in {} |-> Null]
  /\ colorIndex = 0
  /\ now = 1
  /\ status = [s \in Sessions |-> "open"]
  /\ roomId = [s \in Sessions |-> Null]
  /\ joined = [s \in Sessions |-> {}]
  /\ \E document \in ComposeDocuments : editor = [s \in Sessions |-> document]
  /\ toServer = [s \in Sessions |-> << >>]
  /\ toClient = [s \in Sessions |-> << >>]
  /\ lastAck = NoAck
  /\ received = [s \in Sessions |-> << >>]
  /\ isConnected = [s \in Sessions |-> FALSE]
  /\ isApplyingRemoteChange = [s \in Sessions |-> FALSE]
  /\ nextOp = 0
  /\ applied = << >>

\* operations of either user are applied to the first replica one after the
\* other while nothing is on its way to the second; what is pending is
\* composed and replayed on the second
NextCompose ==
  \/ \E userId \in Sessions :
       /\ nextOp < MaxOps + 1
       /\ toClient[2] = << >>
       /\ \E operation \in OperationsOn(editor[1], userId) : applyLocalOperation(operation)
  \/ SendComposed
  \/ Replay

SpecCompose == InitCompose /\ [][NextCompose]_vars

\* -------------------------------------------------------- transaction runs

\* the replacements of one range of a text
Changes(doc) ==
  { c \in [fromA : 0..Len(doc), toA : 0..Len(doc), inserted : Inserted] :
      /\ c.fromA <= c.toA
      /\ c.fromA # c.toA \/ Len(c.inserted) > 0 }

\* the transactions on a text: one changed range, or two with unchanged text
\* between them
Transactions(doc) ==
  { << c >> : c \in Changes(doc) }
    \cup { t \in { << c, d >> : c \in Changes(doc), d \in Changes(doc) } :
             t[1].toA < t[2].fromA }

\* one editor, connected, holding any of the documents
InitTransaction ==
  /\ rooms = [r \in {} |-> Null]
  /\ colorIndex = 0
  /\ now = 1
  /\ status = [s \in Sessions |-> "open"]
  /\ roomId = [s \in Sessions |-> Null]
  /\ joined = [s \in Sessions |-> {}]
  /\ \E document \in Documents : editor = [s \in Sessions |-> document]
  /\ toServer = [s \in Sessions |-> << >>]
  /\ toClient = [s \in Sessions |-> << >>]
  /\ lastAck = NoAck
  /\ received = [s \in Sessions |-> << >>]
  /\ isConnected = [s \in Sessions |-> s = 1]
  /\ isApplyingRemoteChange = [s \in Sessions |-> FALSE]
  /\ nextOp = 0
  /\ applied = << >>

NextTransaction ==
  \E changes \in Transactions(editor[1]) :
    /\ nextOp < MaxOps
    /\ Len(ApplyChanges(editor[1], changes)) <= MaxDocLen
    /\ LocalTransaction(1, changes)

SpecTransaction == InitTransaction /\ [][NextTransaction]_vars

\* --------------------------------------------------------------- sweep runs

\* 30 * 60 * 1000 milliseconds
maxInactiveTime == 1800000

\* a room that is cleaned up whatever its member map holds
shouldCleanupAnyUsers(room, inactiveTime) ==
  inactiveTime > maxInactiveTime

\* Room.shouldCleanup(); inactiveTime is new Date() - this.lastActivity
shouldCleanup(room, inactiveTime) ==
  Cardinality(DOMAIN room.users) = 0 /\ inactiveTime > maxInactiveTime

\* what the wall clock can show for the registered rooms when the timer fires:
\* each room idle for no time at all, or for longer than the limit
InactiveTimes == [DOMAIN rooms -> {0, maxInactiveTime + 1}]

\* cleanupInactiveRooms(), the callback of setInterval; inactiveTime[r] is the
\* time room r has been idle for. What it logs is the step's output
cleanupInactiveRooms(inactiveTime) ==
  LET roomsToDelete ==
        { r \in DOMAIN rooms : shouldCleanup(rooms[r], inactiveTime[r]) }
  IN  /\ rooms' = [r \in (DOMAIN rooms) \ roomsToDelete |-> rooms[r]]
      /\ lastAck' = [ to |-> 0, request |-> "cleanupInactiveRooms",
                      deleted |-> roomsToDelete ]
      /\ UNCHANGED << colorIndex, now, status, roomId, joined, toServer,
                      toClient, received, applied, clientVars >>

\* every room idle for longer than the limit
AllInactive == [r \in DOMAIN rooms |-> maxInactiveTime + 1]

\* the lobby's runs with the timer firing between the handlers
NextSweep ==
  \/ \E s \in Sessions, data \in CreatePayloads, random \in RandomStrings :
       now <= MaxCreates /\ CreateRoom(s, data, generateRoomId(random))
  \/ \E s \in Sessions, data \in LobbyPayloads : JoinRoom(s, data)
  \/ \E s \in Sessions : Disconnect(s)
  \/ \E inactiveTime \in InactiveTimes : cleanupInactiveRooms(inactiveTime)

SpecSweep == Init /\ [][NextSweep]_vars

\* the interval timer never stops, and the time comes when every room left
\* alone has been idle for longer than the limit
FairSweep ==
  Init /\ [][NextSweep]_vars /\ WF_vars(cleanupInactiveRooms(AllInactive))

\* ------------------------------------------------------------- version runs

MaxSyncs == 2

\* the document-sync messages of a queue
Syncs(queue) == { i \in DOMAIN queue : queue[i].name = "document-sync" }

\* one socket creates a room and sends it more operations than the history
\* keeps; once the history is full it asks for a sync now and then, and a
\* second socket may join
NextVersion ==
  \/ \E data \in CreatePayloads :
       DOMAIN rooms = {} /\ CreateRoom(1, data, "ABC123")
  \/ /\ roomId[1] # Null
     /\ nextOp < MaxHistory + MaxOps
     /\ SendOperation(1, HistoryOperation(nextOp))
  \/ /\ roomId[1] # Null
     /\ Len(rooms[roomId[1]].operations) = MaxHistory
     /\ Cardinality(Syncs(toClient[1])) < MaxSyncs
     /\ RequestSync(1)
  \/ /\ roomId[1] # Null
     /\ Len(rooms[roomId[1]].operations) = MaxHistory
     /\ roomId[2] = Null
     /\ JoinRoom(2, DeliveryPayload)

SpecVersion == Init /\ [][NextVersion]_vars

\* ------------------------------------------------------------- verdict runs

\* the client (socket 1) and the server (socket 2) hold the same document and
\* are handed the same operation
InitVerdict ==
  /\ rooms = [r \in {} |-> Null]
  /\ colorIndex = 0
  /\ now = 1
  /\ status = [s \in Sessions |-> "open"]
  /\ roomId = [s \in Sessions |-> Null]
  /\ joined = [s \in Sessions |-> {}]
  /\ \E document \in Documents : editor = [s \in Sessions |-> document]
  /\ \E operation \in ProbeOperations : toServer = [s \in Sessions |-> << operation >>]
  /\ toClient = [s \in Sessions |-> << >>]
  /\ lastAck = NoAck
  /\ received = [s \in Sessions |-> << >>]
  /\ isConnected = [s \in Sessions |-> FALSE]
  /\ isApplyingRemoteChange = [s \in Sessions |-> FALSE]
  /\ nextOp = 0
  /\ applied = << >>

\* the client's side: validateOperation, and applyOperation where it accepts
ClientVerdict ==
  /\ toServer[1] # << >>
  /\ LET operation == Head(toServer[1])
         valid == validateOperation(operation, editor[1])
     IN  received' = [received EXCEPT ![1] =
           << [ valid |-> valid,
                document |-> IF valid THEN applyOperationToString(editor[1], operation)
                             ELSE editor[1] ] >>]
  /\ toServer' = [toServer EXCEPT ![1] = << >>]
  /\ lastAck' = NoAck
  /\ UNCHANGED << serverVars, status, toClient, clientVars >>

\* the server's side: Room.isValidOperation, and applyOperationToDocument where
\* it accepts
ServerVerdict ==
  /\ toServer[2] # << >>
  /\ LET operation == Head(toServer[2])
         valid == isValidOperation([document |-> editor[2]], operation)
     IN  received' = [received EXCEPT ![2] =
           << [ valid |-> valid,
                document |-> IF valid THEN applyOperationToDocument(editor[2], operation)
                             ELSE editor[2] ] >>]
  /\ toServer' = [toServer EXCEPT ![2] = << >>]
  /\ lastAck' = NoAck
  /\ UNCHANGED << serverVars, status, toClient, clientVars >>

NextVerdict == ClientVerdict \/ ServerVerdict

SpecVerdict == InitVerdict /\ [][NextVerdict]_vars

\* ------------------------------------------------------- claim vocabulary

\* section 4.2 of the specification: the validity predicate against a
\* document of length L
ClaimValid(L, op) ==
  /\ "type" \in DOMAIN op /\ op.type \in {"insert", "delete", "retain"}
  /\ "position" \in DOMAIN op /\ 0 <= op.position /\ op.position <= L
  /\ op.type = "insert" => ("content" \in DOMAIN op /\ op.content # << >>)
  /\ op.type = "delete" =>
       ("length" \in DOMAIN op /\ op.length > 0 /\ op.position + op.length <= L)
  /\ op.type = "retain" => ("length" \in DOMAIN op /\ op.length > 0)

\* section 4.2 of the specification: the positional effect of a valid operation
ClaimApply(doc, op) ==
  CASE op.type = "insert" ->
         SubSeq(doc, 1, op.position) \o op.content \o SubSeq(doc, op.position + 1, Len(doc))
    [] op.type = "delete" ->
         SubSeq(doc, 1, op.position) \o SubSeq(doc, op.position + op.length + 1, Len(doc))
    [] op.type = "retain" -> doc

RECURSIVE ClaimApplyAll(_, _)
ClaimApplyAll(doc, ops) ==
  IF ops = << >> THEN doc
  ELSE ClaimApplyAll(ClaimApply(doc, Head(ops)), Tail(ops))

\* the operations this Room object has accepted, in accept order
AcceptedBy(room) ==
  LET entries == SelectSeq(applied, LAMBDA e :
                    e.operation.roomId = room.id /\ e.createdAt = room.createdAt)
  IN  [i \in DOMAIN entries |-> entries[i].operation]

\* the messages named `name` that socket s has handled or has in flight, by
\* operation id, in the order the server sent them
SentTo(s, name) ==
  LET got == SelectSeq(received[s], LAMBDA m : m.name = name)
      due == SelectSeq(toClient[s], LAMBDA m : m.name = name)
  IN  [i \in DOMAIN got |-> got[i].operationId]
        \o [i \in DOMAIN due |-> Logged(due[i]).operationId]

HandledBy(s, name) ==
  LET got == SelectSeq(received[s], LAMBDA m : m.name = name)
  IN  [i \in DOMAIN got |-> got[i].operationId]

Count(seq, x) == Cardinality({i \in DOMAIN seq : seq[i] = x})

\* where in the apply order the operation with this id stands (0: nowhere)
ApplyIndex(id) ==
  IF \E i \in DOMAIN applied : applied[i].operation.id = id
  THEN CHOOSE i \in DOMAIN applied : applied[i].operation.id = id
  ELSE 0

IsMember(s) ==
  /\ roomId[s] # Null
  /\ roomId[s] \in DOMAIN rooms
  /\ s \in DOMAIN rooms[roomId[s]].users

\* ------------------------------------------------------------------ claims

\* the sockets whose editor component is in a room
EditorMembers == {s \in DOMAIN status : isConnected[s] /\ IsMember(s)}

\* nothing is in flight in either direction and no flag is waiting for its timer
Quiescent ==
  \A s \in DOMAIN status :
    toServer[s] = << >> /\ toClient[s] = << >> /\ ~isApplyingRemoteChange[s]

\* C1: once two or more editors of a room have each had an edit accepted and
\* every message has been delivered and applied, each editor's text is the
\* room's document
C1_Convergence ==
  ( /\ Quiescent
    /\ Cardinality(EditorMembers) >= 2
    /\ \A s \in EditorMembers : \E i \in DOMAIN applied : applied[i].operation.userId = s )
  => \A s \in EditorMembers : editor[s] = rooms[roomId[s]].document

\* C2: every room's document is the welcome document with the operations the
\* room accepted applied positionally, in accept order; rejected operations
\* contribute nothing
C2_DocumentIsAcceptedOperationsApplied ==
  \A r \in DOMAIN rooms :
    rooms[r].document = ClaimApplyAll(WelcomeDocument, AcceptedBy(rooms[r]))

\* a room has accepted an insert or a delete and has rejected an operation
C2_Witness ==
  \E s \in DOMAIN status :
    /\ IsMember(s)
    /\ rooms[roomId[s]].document # WelcomeDocument
    /\ AcceptedBy(rooms[roomId[s]]) # << >>
    /\ SentTo(s, "operation-error") # << >>

\* C3: the document-update messages a socket receives are operations the
\* server applied, each once, in the order the server applied them
C3_UpdatesInApplyOrder ==
  \A s \in DOMAIN status :
    LET U == SentTo(s, "document-update")
    IN  \A i \in DOMAIN U :
          /\ ApplyIndex(U[i]) # 0
          /\ \A j \in DOMAIN U : i < j => ApplyIndex(U[i]) < ApplyIndex(U[j])

\* a socket has handled two document-update messages
C3_Witness ==
  \E s \in DOMAIN status : Len(HandledBy(s, "document-update")) >= 2

\* the server accepted operation k from member s of its room
AcceptedFrom(k, s) ==
  \E i \in DOMAIN applied :
    /\ applied[i].operation.id = k
    /\ applied[i].operation.userId = s
    /\ s \in applied[i].members

\* the server accepted operation k while t, not its sender, was a member
AcceptedBeside(k, t) ==
  \E i \in DOMAIN applied :
    /\ applied[i].operation.id = k
    /\ applied[i].operation.userId # t
    /\ applied[i].operation.userId \in applied[i].members
    /\ t \in applied[i].members

\* what has been sent for the accepted operations so far: to the sender one
\* operation-ack and no document-update, to every other member of that moment
\* one document-update (a closed socket has lost what was still in flight)
C4_SentOnce ==
  \A k \in 1..nextOp, s \in DOMAIN status :
    /\ AcceptedFrom(k, s) =>
         /\ Count(SentTo(s, "document-update"), k) = 0
         /\ Count(SentTo(s, "operation-ack"), k) <= 1
         /\ status[s] = "open" => Count(SentTo(s, "operation-ack"), k) = 1
    /\ AcceptedBeside(k, s) =>
         /\ Count(SentTo(s, "document-update"), k) <= 1
         /\ status[s] = "open" => Count(SentTo(s, "document-update"), k) = 1

\* C4: for every accepted operation of a room member, the sender gets exactly
\* one operation-ack and never a document-update for it, and every other
\* member at apply time gets exactly one document-update for it; a socket that
\* stays connected eventually handles its message
C4_AckAndFanOut ==
  /\ []C4_SentOnce
  /\ \A k \in 1..(MaxOps + 1), s \in Sessions :
       /\ AcceptedFrom(k, s)
            ~> (status[s] = "closed" \/ Count(HandledBy(s, "operation-ack"), k) = 1)
       /\ AcceptedBeside(k, s)
            ~> (status[s] = "closed" \/ Count(HandledBy(s, "document-update"), k) = 1)

\* a sender has handled the operation-ack of its operation and another member
\* has handled the document-update of the same operation
C4_Witness ==
  \E k \in 1..nextOp, s \in DOMAIN status, t \in DOMAIN status :
    /\ AcceptedFrom(k, s)
    /\ AcceptedBeside(k, t)
    /\ Count(HandledBy(s, "operation-ack"), k) = 1
    /\ Count(HandledBy(t, "document-update"), k) = 1

\* C5: a document-operation of a room member that fails validation is answered
\* with operation-error "Invalid operation" to that member alone, and leaves
\* the registry (documents, histories, members) as it was
C5_InvalidOperationStep ==
  \A s \in DOMAIN status, operation \in RawOperations :
    ( /\ nextOp' = nextOp + 1
      /\ IsMember(s)
      /\ ~ClaimValid(Len(rooms[roomId[s]].document), operation)
      /\ SendOperation(s, operation) )
    => /\ rooms' = rooms
       /\ applied' = applied
       /\ \A t \in DOMAIN status : t # s => toClient'[t] = toClient[t]
       /\ toClient'[s] = Append(toClient[s],
            Msg("operation-error",
                [ error |-> "Invalid operation",
                  operation |-> Spread(operation, [id |-> nextOp + 1]),
                  operationId |-> nextOp + 1 ]))

C5_InvalidOperationRejected == [][C5_InvalidOperationStep]_vars

\* a member of a room with another member has been sent an operation-error
C5_Witness ==
  \E s \in DOMAIN status :
    /\ IsMember(s)
    /\ Cardinality(DOMAIN rooms[roomId[s]].users) >= 2
    /\ SentTo(s, "operation-error") # << >>

\* C6: the server accepts an operation exactly when the validity predicate of
\* section 4.2 holds of it against the current document's length
C6_VerdictStep ==
  (IsMember(1) /\ nextOp' = nextOp + 1)
  => \E operation \in ProbeOperations :
       LET L == Len(rooms[roomId[1]].document)
           sent == Spread(operation, [id |-> nextOp'])
           stamped == Spread(sent, [userId |-> 1, timestamp |-> now, roomId |-> roomId[1]])
       IN  /\ Len(toClient'[1]) = 1
           /\ toClient'[1][1].name \in {"operation-ack", "operation-error"}
           /\ toClient'[1][1].data.operation \in {sent, stamped}
           /\ (toClient'[1][1].name = "operation-ack") <=> ClaimValid(L, operation)
           /\ (applied' # applied) <=> ClaimValid(L, operation)

C6_ValidityPredicate == [][C6_VerdictStep]_vars

\* an insert at the end of the welcome document was accepted, and a delete of
\* length 0 has just been refused
C6_Witness ==
  /\ Len(applied) = 1
  /\ applied[1].operation.type = "insert"
  /\ applied[1].operation.position = Len(WelcomeDocument)
  /\ Len(toClient[1]) = 1
  /\ toClient[1][1].name = "operation-error"
  /\ toClient[1][1].data.operation.type = "delete"
  /\ "length" \in DOMAIN toClient[1][1].data.operation
  /\ toClient[1][1].data.operation.length = 0

\* C7: no room ever has more than maxUsers members, and a join-room of an
\* unbound socket to a room that has maxUsers members is acknowledged with
\* "Room is full", leaves the registry and the bindings as they are and sends
\* nothing to anyone
C7_FullRoomStep ==
  \A s \in DOMAIN status :
    ( /\ "ABC123" \in DOMAIN rooms
      /\ Cardinality(DOMAIN rooms["ABC123"].users) >= maxUsers
      /\ roomId[s] = Null
      /\ JoinRoom(s, CapacityPayload) )
    => /\ lastAck' = Callback(s, "join-room", [success |-> FALSE, error |-> "Room is full"])
       /\ rooms' = rooms
       /\ roomId' = roomId
       /\ joined' = joined
       /\ toClient' = toClient

C7_RoomCapacity ==
  /\ [](\A r \in DOMAIN rooms : Cardinality(DOMAIN rooms[r].users) <= maxUsers)
  /\ [][C7_FullRoomStep]_vars

\* a socket has just been refused by a room that has maxUsers members
C7_Witness ==
  /\ lastAck.to # 0
  /\ lastAck.request = "join-room"
  /\ ~lastAck.reply.success
  /\ lastAck.reply.error = "Room is full"
  /\ "ABC123" \in DOMAIN rooms
  /\ Cardinality(DOMAIN rooms["ABC123"].users) = maxUsers
  /\ lastAck.to \notin DOMAIN rooms["ABC123"].users

\* the last n entries of a sequence
LastN(seq, n) == SubSeq(seq, Len(seq) - n + 1, Len(seq))

\* C8: a room's history never has more than 1000 entries, and after n accepted
\* operations it is the most recent min(n, 1000) of them in apply order
C8_HistoryBounded ==
  \A r \in DOMAIN rooms :
    LET accepted == AcceptedBy(rooms[r])
        n == Len(accepted)
    IN  /\ Len(rooms[r].operations) <= 1000
        /\ rooms[r].operations = LastN(accepted, IF n < 1000 THEN n ELSE 1000)

\* a room has accepted more operations than its history keeps
C8_Witness ==
  \E r \in DOMAIN rooms :
    /\ Len(AcceptedBy(rooms[r])) > MaxHistory
    /\ Len(rooms[r].operations) = MaxHistory

\* the room id a join-room payload asks for, uppercased
Requested(data) ==
  toUpperCase(IF "string" \in DOMAIN data THEN data.string ELSE data.roomId)

\* C9: a join-room for the room the socket is already bound to is acknowledged
\* with success, the current document and the member list, and changes nothing:
\* registry, bindings, colour counter and every queue stay as they are
C9_RejoinStep ==
  \A s \in DOMAIN status, data \in JoinPayloads :
    ( /\ lastAck' # NoAck
      /\ roomId[s] = Requested(data)
      /\ roomId[s] \in DOMAIN rooms
      /\ JoinRoom(s, data) )
    => /\ lastAck'.to = s
       /\ lastAck'.reply.success
       /\ lastAck'.reply.document = rooms[roomId[s]].document
       /\ Len(lastAck'.reply.users) = Cardinality(DOMAIN rooms[roomId[s]].users)
       /\ { lastAck'.reply.users[i] : i \in DOMAIN lastAck'.reply.users }
            = { rooms[roomId[s]].users[u] : u \in DOMAIN rooms[roomId[s]].users }
       /\ rooms' = rooms
       /\ roomId' = roomId
       /\ joined' = joined
       /\ colorIndex' = colorIndex
       /\ toClient' = toClient

C9_RejoinIdempotent == [][C9_RejoinStep]_vars

\* a socket that already had an operation accepted in its room has just been
\* acknowledged a join-room with success
C9_Witness ==
  /\ lastAck.to # 0
  /\ lastAck.request = "join-room"
  /\ lastAck.reply.success
  /\ \E i \in DOMAIN applied :
       /\ applied[i].operation.userId = lastAck.to
       /\ applied[i].operation.roomId = roomId[lastAck.to]

\* C10: every successful join-room acknowledgement carries document, users,
\* user, roomStats and documentVersion, and documentVersion is the length of
\* the room's history
C10_JoinAckCarriesVersion ==
  ( /\ lastAck.to # 0
    /\ lastAck.request = "join-room"
    /\ lastAck.reply.success )
  => /\ {"document", "users", "user", "roomStats", "documentVersion"}
          \subseteq DOMAIN lastAck.reply
     /\ lastAck.reply.documentVersion = Len(rooms[roomId[lastAck.to]].operations)

\* C11: a join-room for a room other than the one the socket is bound to is
\* refused with "Already in a different room", whether or not the requested
\* room is in the registry, and changes no room
C11_DifferentRoomStep ==
  \A s \in DOMAIN status, data \in JoinPayloads :
    ( /\ lastAck' # NoAck
      /\ roomId[s] # Null
      /\ Requested(data) # roomId[s]
      /\ JoinRoom(s, data) )
    => /\ lastAck' = Callback(s, "join-room",
                              [success |-> FALSE, error |-> "Already in a different room"])
       /\ rooms' = rooms

C11_DifferentRoomRejected == [][C11_DifferentRoomStep]_vars

\* C13: a join-room for a well-formed id that is not in the registry is
\* refused with "Room not found" and leaves the registry, the bindings, the
\* adapter rooms, the colour counter and every queue as they are
C13_RoomNotFoundStep ==
  \A s \in DOMAIN status, data \in JoinPayloads :
    ( /\ lastAck' # NoAck
      /\ Requested(data) \notin DOMAIN rooms
      /\ JoinRoom(s, data) )
    => /\ lastAck' = Callback(s, "join-room", [success |-> FALSE, error |-> "Room not found"])
       /\ rooms' = rooms
       /\ roomId' = roomId
       /\ joined' = joined
       /\ colorIndex' = colorIndex
       /\ toClient' = toClient
       /\ applied' = applied

C13_RoomNotFound == [][C13_RoomNotFoundStep]_vars

\* a socket has just been told "Room not found" while another room, with an
\* accepted operation in its history, is in the registry
C13_Witness ==
  /\ lastAck.to # 0
  /\ lastAck.request = "join-room"
  /\ ~lastAck.reply.success
  /\ lastAck.reply.error = "Room not found"
  /\ \E r \in DOMAIN rooms : rooms[r].operations # << >>

\* the characters of the room ids the lobby runs ask for
Characters(str) ==
  CASE str = "abc123" -> << "a", "b", "c", "1", "2", "3" >>
    [] str = "abc-12" -> << "a", "b", "c", "-", "1", "2" >>
    [] str = "I" -> << "I" >>
    [] str = "" -> << >>

AlphaNumeric ==
  { "A", "B", "C", "D", "E", "F", "G", "H", "I", "J", "K", "L", "M",
    "N", "O", "P", "Q", "R", "S", "T", "U", "V", "W", "X", "Y", "Z",
    "0", "1", "2", "3", "4", "5", "6", "7", "8", "9" }

\* section 6 of the specification: six characters, each in [A-Z0-9] once the
\* case is folded
ClaimWellFormed(str) ==
  /\ Len(Characters(str)) = 6
  /\ \A i \in DOMAIN Characters(str) : UpperChar(Characters(str)[i]) \in AlphaNumeric

\* C12: a join-room whose id is not six characters of [A-Z0-9] after case
\* folding is refused with "Invalid room ID format"
C12_BadFormatStep ==
  \A s \in DOMAIN status, data \in LobbyPayloads :
    ( /\ lastAck' # NoAck
      /\ ~ClaimWellFormed(data.roomId)
      /\ JoinRoom(s, data) )
    => lastAck' = Callback(s, "join-room",
                           [success |-> FALSE, error |-> "Invalid room ID format"])

C12_BadFormatRejected == [][C12_BadFormatStep]_vars

\* the rooms that have socket s in their member map
RoomsOf(s) == {r \in DOMAIN rooms : s \in DOMAIN rooms[r].users}

\* C14: every socket is in the member map of at most one room
C14_MemberOfOneRoom ==
  \A s \in DOMAIN status : Cardinality(RoomsOf(s)) <= 1

\* C16: a create-room never replaces a room that is in the registry
C16_CreateStep ==
  (lastAck'.to # 0 /\ lastAck'.request = "create-room")
  => \A r \in DOMAIN rooms : r \in DOMAIN rooms' /\ rooms'[r] = rooms[r]

C16_CreateKeepsRooms == [][C16_CreateStep]_vars

\* C17: every room id in the registry is six characters long, so that the
\* room passes join-room's length test
C17_RoomIdsSixLong ==
  \A r \in DOMAIN rooms : StrLen(r) = 6

\* C15: when a member of a room disconnects it leaves the room's member map,
\* every connected member that remains is sent user-left with the leaver's id,
\* and a room left without members leaves the registry in the same step
C15_DisconnectStep ==
  \A s \in DOMAIN status, r \in DOMAIN rooms :
    (s \in DOMAIN rooms[r].users /\ Disconnect(s))
    => /\ r \in DOMAIN rooms' => s \notin DOMAIN rooms'[r].users
       /\ DOMAIN rooms[r].users = {s} => r \notin DOMAIN rooms'
       /\ \A t \in DOMAIN rooms[r].users \ {s} :
            status[t] = "open" => toClient'[t] = Append(toClient[t], Msg("user-left", s))

C15_MemberLeaves == [][C15_DisconnectStep]_vars

\* C18: a create-room is acknowledged with success and a room id; the registry
\* has a room made in that step under the id, with the welcome document, an
\* empty history and the creator as its only member, and the creator is bound
\* to it
C18_CreateAck ==
  (lastAck.to # 0 /\ lastAck.request = "create-room")
  => LET s == lastAck.to
         reply == lastAck.reply
     IN  /\ reply.success
         /\ reply.roomId \in DOMAIN rooms
         /\ rooms[reply.roomId].createdAt = now - 1
         /\ rooms[reply.roomId].document = WelcomeDocument
         /\ rooms[reply.roomId].operations = << >>
         /\ DOMAIN rooms[reply.roomId].users = {s}
         /\ reply.document = WelcomeDocument
         /\ Len(reply.users) = 1
         /\ roomId[s] = reply.roomId

\* a create-room has just been acknowledged to a socket that was a member of
\* another room, under an id the registry already had
C18_Witness ==
  /\ lastAck.to # 0
  /\ lastAck.request = "create-room"
  /\ Cardinality(RoomsOf(lastAck.to)) = 2
  /\ rooms[lastAck.reply.roomId].createdAt > 1

\* C19: on a first join that succeeds, every connected socket that was a
\* member of the room is sent one user-joined, carrying the joiner as the room
\* now holds it and the member count with the joiner in it; the joiner is sent
\* none
C19_FirstJoinStep ==
  \A s \in DOMAIN status, data \in LobbyPayloads :
    ( /\ lastAck' # NoAck
      /\ roomId[s] # Requested(data)
      /\ JoinRoom(s, data)
      /\ lastAck'.reply.success )
    => LET rid == Requested(data)
       IN  /\ s \in DOMAIN rooms'[rid].users
           /\ toClient'[s] = toClient[s]
           /\ \A t \in DOMAIN rooms[rid].users \ {s} :
                status[t] = "open" =>
                  toClient'[t] = Append(toClient[t],
                    Msg("user-joined",
                        [ user |-> rooms'[rid].users[s],
                          userCount |-> Cardinality(DOMAIN rooms'[rid].users) ]))

C19_UserJoinedFanOut == [][C19_FirstJoinStep]_vars

\* a first join has just been acknowledged and the room's other member has
\* the user-joined in flight
C19_Witness ==
  /\ lastAck.to # 0
  /\ lastAck.request = "join-room"
  /\ lastAck.reply.success
  /\ "documentVersion" \in DOMAIN lastAck.reply
  /\ \E t \in DOMAIN status :
       /\ t # lastAck.to
       /\ toClient[t] # << >>
       /\ toClient[t][Len(toClient[t])].name = "user-joined"
       /\ toClient[t][Len(toClient[t])].data.userCount = 2

\* no server state has changed and nothing has been sent to anyone
NothingDone ==
  /\ UNCHANGED << rooms, colorIndex, now, roomId, joined, applied >>
  /\ toClient' = toClient

\* C20: a document-operation, cursor-position or language-change of a socket
\* that is bound to no room changes no server state and sends nothing; a
\* request-sync of such a socket sends it one sync-error "Room not found" and
\* changes no server state
C20_UnboundStep ==
  \A s \in DOMAIN status :
    roomId[s] = Null =>
      /\ \A operation \in DeliveryOperations :
           SendOperation(s, operation) => NothingDone
      /\ \A position \in CursorPositions :
           CursorPosition(s, position) => NothingDone
      /\ \A data \in LanguagePayloads :
           LanguageChange(s, data) => NothingDone
      /\ RequestSync(s) =>
           /\ UNCHANGED << rooms, colorIndex, now, roomId, joined, applied >>
           /\ toClient' = [toClient EXCEPT ![s] =
                             Append(@, Msg("sync-error", [error |-> "Room not found"]))]

C20_UnboundIgnored == [][C20_UnboundStep]_vars

\* a socket that is in no room has a sync-error in flight and has sent an
\* operation, while another socket is in a room
C20_Witness ==
  \E s \in DOMAIN status, t \in DOMAIN status :
    /\ roomId[s] = Null
    /\ IsMember(t)
    /\ nextOp > 0
    /\ applied = << >>
    /\ received[t] = << >>
    /\ toClient[t] = << >>
    /\ toClient[s] = << Msg("sync-error", [error |-> "Room not found"]) >>

\* C21: a request-sync of a socket bound to an existing room sends that socket,
\* and no other, exactly one document-sync whose document is the room's
\* document, whose version is the length of the room's history and whose
\* operations are the last min(50, history length) history entries in apply
\* order; no server state changes
C21_SyncStep ==
  \A s \in DOMAIN status :
    (roomId[s] # Null /\ roomId[s] \in DOMAIN rooms /\ RequestSync(s)) =>
      LET room == rooms[roomId[s]]
          n == Len(room.operations)
      IN  /\ UNCHANGED << rooms, colorIndex, now, roomId, joined, applied >>
          /\ Len(toClient'[s]) = Len(toClient[s]) + 1
          /\ LET m == toClient'[s][Len(toClient'[s])]
             IN  /\ toClient' = [toClient EXCEPT ![s] = Append(@, m)]
                 /\ m.name = "document-sync"
                 /\ m.data.document = room.document
                 /\ m.data.version = n
                 /\ m.data.operations = LastN(room.operations, IF n < 50 THEN n ELSE 50)

C21_SyncAnswered == [][C21_SyncStep]_vars

\* a document-sync of a room whose history is longer than 50 is in flight
C21_Witness ==
  \E s \in DOMAIN status :
    /\ IsMember(s)
    /\ toClient[s] # << >>
    /\ LET m == toClient[s][1]
       IN  /\ m.name = "document-sync"
           /\ m.data.version > SyncOperations
           /\ Len(m.data.operations) = SyncOperations
           /\ m.data.operations[SyncOperations] = rooms[roomId[s]].operations[m.data.version]

\* C22: when a socket's operation is accepted, the history entry of its room,
\* the operation-ack it gets and the document-update every other member gets
\* carry the socket's id as userId and its bound room as roomId, whatever the
\* payload said; no other room's history and no other room's members hear of it
C22_StampStep ==
  \A s \in DOMAIN status :
    \A operation \in ForgedOperations(s) :
      (SendOperation(s, operation) /\ applied' # applied) =>
        LET rid == roomId[s]
            entry == rooms'[rid].operations[Len(rooms'[rid].operations)]
            ack == toClient'[s][Len(toClient'[s])]
        IN  /\ operation.userId # s /\ operation.roomId # rid
            /\ entry.userId = s /\ entry.roomId = rid
            /\ entry.id = nextOp'
            /\ ack.name = "operation-ack"
            /\ ack.data.operation.userId = s /\ ack.data.operation.roomId = rid
            /\ \A r \in DOMAIN rooms : r # rid => rooms'[r] = rooms[r]
            /\ \A t \in DOMAIN status \ {s} :
                 IF rid \in joined[t]
                 THEN LET update == toClient'[t][Len(toClient'[t])]
                      IN  /\ toClient'[t] = Append(toClient[t], update)
                          /\ update.name = "document-update"
                          /\ update.data.userId = s /\ update.data.roomId = rid
                          /\ update.data.id = nextOp'
                 ELSE toClient'[t] = toClient[t]

C22_ServerStamps == [][C22_StampStep]_vars

\* both sockets are in one room while the other room exists too, and a forged
\* operation of one of them is in the history and on its way to the other
C22_Witness ==
  \E s \in DOMAIN status, t \in DOMAIN status :
    /\ s # t
    /\ IsMember(s) /\ IsMember(t) /\ roomId[s] = roomId[t]
    /\ applied # << >>
    /\ applied[Len(applied)].operation.userId = s
    /\ toClient[t] # << >>
    /\ toClient[t][Len(toClient[t])].name = "document-update"
    /\ toClient[t][Len(toClient[t])].data.userId = s

\* C23: a message with a null payload, or a join-room without a callback,
\* leaves no exception unhandled, and it leaves every room and every other
\* socket as they were
C23_MalformedStep ==
  \A s \in DOMAIN status :
    (\/ JoinRoomNull(s)
     \/ JoinRoomNoCallback(s, DeliveryPayload)
     \/ DocumentOperationNull(s)
     \/ LanguageChangeNull(s)) =>
      /\ "uncaught" \notin DOMAIN lastAck'
      /\ rooms' = rooms
      /\ \A t \in DOMAIN status \ {s} :
           /\ status'[t] = status[t]
           /\ roomId'[t] = roomId[t]
           /\ toClient'[t] = toClient[t]

C23_MalformedContained == [][C23_MalformedStep]_vars

\* C24: when the apply of a validated operation throws inside
\* applyOperationToDocument, the document keeps its contents, the sender gets
\* an operation-error, and no member gets a document-update
C24_ApplyFailureStep ==
  \A s \in DOMAIN status :
    (/\ IsMember(s)
     /\ isValidOperation(rooms[roomId[s]], LongInsert)
     /\ ConcatThrows(rooms[roomId[s]].document, LongInsert)
     /\ SendOperation(s, LongInsert)) =>
      /\ rooms'[roomId[s]].document = rooms[roomId[s]].document
      /\ toClient'[s][Len(toClient'[s])].name = "operation-error"
      /\ \A t \in DOMAIN status \ {s} : toClient'[t] = toClient[t]

C24_ApplyFailureReported == [][C24_ApplyFailureStep]_vars

\* C25: the answer to GET /health has status "ok", a server object whose rooms
\* field is the number of rooms in the registry, and a rooms field that is a
\* list with exactly one stats record for each room in the registry
C25_HealthListsRooms ==
  ("request" \in DOMAIN lastAck /\ lastAck.request = "GET /health") =>
    LET reply == lastAck.reply
    IN  /\ reply.status = "ok"
        /\ "server" \in DOMAIN reply
        /\ reply.server.rooms = Cardinality(DOMAIN rooms)
        /\ Len(reply.rooms) = Cardinality(DOMAIN rooms)
        /\ \A r \in DOMAIN rooms :
             Cardinality({i \in DOMAIN reply.rooms : reply.rooms[i].id = r}) = 1

\* C26: an operation whose position or length is a number with a fractional
\* part is rejected: nothing is accepted, the room stays as it is, and the
\* sender gets operation-error "Invalid operation"
C26_FractionStep ==
  \A s \in DOMAIN status :
    \A operation \in FractionalOperations :
      (IsMember(s) /\ SendOperation(s, operation)) =>
        /\ applied' = applied
        /\ rooms' = rooms
        /\ toClient'[s][Len(toClient'[s])].name = "operation-error"
        /\ toClient'[s][Len(toClient'[s])].data.error = "Invalid operation"

C26_FractionRejected == [][C26_FractionStep]_vars

\* C27: two users start from one document and each makes an operation valid
\* on it; when each replica has applied its own operation and then the other's
\* transformed against its own, the two replicas hold the same text
C27_TP1 ==
  (Len(received[1]) = 2 /\ Len(received[2]) = 2) => editor[1] = editor[2]

\* C28: of two inserts at one position, the one with the priority keeps its
\* position when it is transformed against the other, and the one without is
\* moved right by the length of the other's content
C28_InsertTie ==
  LET a == toServer[1][1]
      b == toServer[2][1]
  IN  (a.type = "insert" /\ b.type = "insert" /\ a.position = b.position) =>
        /\ Len(received[2]) = 2 => received[2][2] = a
        /\ Len(received[1]) = 2 =>
             received[1][2] = [b EXCEPT !.position = b.position + Len(a.content)]

\* C29: a sequence of operations, each valid on the document its predecessors
\* left, is composed into a list that is no longer than the sequence, and the
\* replica that has applied every composed list holds the text of the replica
\* that applied the operations one by one
C29_ComposeStep ==
  /\ SendComposed => Len(toClient'[2]) - Len(toClient[2]) <= Len(toServer[1])
  /\ (toServer'[1] = << >> /\ toClient'[2] = << >>) => editor'[2] = editor'[1]

C29_ComposePreservesEffect == [][C29_ComposeStep]_vars

\* the second replica has caught up with the first by applying fewer
\* operations than the first has applied, and the text is not the one they
\* started from
C29_Witness ==
  /\ nextOp > 1
  /\ toServer[1] = << >>
  /\ toClient[2] = << >>
  /\ received[2] # << >>
  /\ Len(received[2]) < nextOp
  /\ editor[2] = editor[1]
  /\ editor[1] \notin ComposeDocuments

\* the operations applied one after the other, each at its position
RECURSIVE ApplyEach(_, _)
ApplyEach(doc, operations) ==
  IF operations = << >> THEN doc
  ELSE ApplyEach(applyOperationToDocument(doc, Head(operations)), Tail(operations))

\* C30: the operations the editor emits for one transaction, applied in the
\* order of emission to the text before the transaction, give the text after it
C30_TransactionStep ==
  \A s \in DOMAIN status :
    \A changes \in Transactions(editor[s]) :
      LocalTransaction(s, changes) =>
        LET emitted == SubSeq(toServer'[s], Len(toServer[s]) + 1, Len(toServer'[s]))
        IN  ApplyEach(editor[s], emitted) = editor'[s]

C30_EmittedOperationsReplay == [][C30_TransactionStep]_vars

\* C31: applying a remote operation that came in a document-update to the
\* editor puts no document-operation on the way to the server, whatever local
\* edits and remote updates came before
C31_NoEchoStep ==
  \A s \in DOMAIN status :
    (/\ isConnected[s]
     /\ toClient[s] # << >>
     /\ Head(toClient[s]).name = "document-update"
     /\ ClientReceive(s)) =>
      /\ toServer' = toServer
      /\ nextOp' = nextOp

C31_NoEcho == [][C31_NoEchoStep]_vars

\* an editor has applied a remote operation to its text and its flag is still
\* set; an operation of its own has been acknowledged, and nothing is on its
\* way to the server
C31_Witness ==
  \E s \in DOMAIN status :
    /\ isConnected[s]
    /\ isApplyingRemoteChange[s]
    /\ \E i \in DOMAIN received[s] : received[s][i].name = "document-update"
    /\ \E i \in DOMAIN received[s] : received[s][i].name = "operation-ack"
    /\ toServer[s] = << >>

\* C32: when an editor component gets a successful join-room reply, or a
\* document-sync, its editor's text is the document the message carries
C32_SnapshotStep ==
  \A s \in DOMAIN status :
    /\ \A id \in RoomIds :
         (EditorJoin(s, EditorJoinPayload(id)) /\ lastAck'.reply.success) =>
           editor'[s] = lastAck'.reply.document
    /\ (/\ isConnected[s]
        /\ toClient[s] # << >>
        /\ Head(toClient[s]).name = "document-sync"
        /\ ClientReceive(s)) =>
          editor'[s] = Head(toClient[s]).data.document

C32_SnapshotAdopted == [][C32_SnapshotStep]_vars

\* C33: every edit a user makes in an editor that is connected to a room puts
\* its operations on the way to the server, also when a remote operation has
\* just been applied
C33_LocalEditStep ==
  \A s \in DOMAIN status :
    \A fromA \in 0..MaxDocLen, toA \in 0..MaxDocLen, inserted \in Inserted :
      (IsMember(s) /\ LocalEdit(s, fromA, toA, inserted)) =>
        toServer'[s] = toServer[s] \o ChangeToOperations(fromA, toA, inserted, nextOp + 1)

C33_LocalEditEmitted == [][C33_LocalEditStep]_vars

\* C34: every id in a room's member map is that of an open socket whose
\* room id names that room; a closed socket is in no room's member map
C34_MembersAreBound ==
  \A r \in DOMAIN rooms :
    \A u \in DOMAIN rooms[r].users :
      status[u] = "open" /\ roomId[u] = r

\* C35: the user-joined of a join-room and the user-left of a disconnect
\* reach only sockets whose room id names the room that was joined or left
C35_IsolationStep ==
  \A s \in DOMAIN status :
    /\ \A data \in LobbyPayloads :
         JoinRoom(s, data) =>
           \A t \in DOMAIN status \ {s} :
             toClient'[t] # toClient[t] => roomId[t] = Requested(data)
    /\ Disconnect(s) =>
         \A t \in DOMAIN status \ {s} :
           toClient'[t] # toClient[t] => roomId[t] = roomId[s]

C35_RoomIsolation == [][C35_IsolationStep]_vars

\* the ids the lobby's runs give to rooms
SweepRoomIds == { generateRoomId(random) : random \in RandomStrings }

\* room r is registered and every session in its member map has disconnected;
\* a session leaves a member map only by disconnecting, so every session that
\* ever was a member of the room has disconnected
AllGone(r) ==
  /\ r \in DOMAIN rooms
  /\ \A u \in DOMAIN rooms[r].users : status[u] = "closed"

\* C36: once every session that ever was a member of a room has disconnected,
\* the room is eventually removed from the registry (unless a new session joins
\* it first): no room stays registered forever with no connected session.
C36_AbandonedRoomRemoved ==
  \A r \in SweepRoomIds : AllGone(r) ~> (r \notin DOMAIN rooms \/ ~AllGone(r))

\* C37: between the handlers every registered room has at least one entry in
\* its member map, so shouldCleanup is false for it however long it has been
\* idle, and a run of cleanupInactiveRooms deletes no room.
C37_RoomsKeepAMember ==
  /\ \A r \in DOMAIN rooms :
       /\ DOMAIN rooms[r].users # {}
       /\ ~shouldCleanup(rooms[r], maxInactiveTime + 1)
  /\ "deleted" \in DOMAIN lastAck => lastAck.deleted = {}

\* the timer has fired with every room idle beyond the limit, one of them a
\* room a session has disconnected from and another session is still in
C37_Witness ==
  /\ "deleted" \in DOMAIN lastAck
  /\ \E r \in DOMAIN rooms, s \in DOMAIN status :
       /\ status[s] = "closed"
       /\ roomId[s] = r
       /\ s \notin DOMAIN rooms[r].users

\* the version and the document of every reply about room r that is in flight:
\* the document-sync messages queued for its members, and the join-room
\* acknowledgement of this step when it carries documentVersion
Replies(r) ==
  UNION { { [version |-> toClient[s][i].data.version,
              document |-> toClient[s][i].data.document] :
                i \in Syncs(toClient[s]) } :
            s \in { t \in DOMAIN status : roomId[t] = r } }
  \cup
  { [version |-> lastAck.reply.documentVersion,
     document |-> lastAck.reply.document] :
      s \in { t \in DOMAIN status :
                /\ roomId[t] = r /\ lastAck.to = t
                /\ lastAck.request = "join-room"
                /\ "documentVersion" \in DOMAIN lastAck.reply } }

\* C38: the version a reply reports for a room identifies the document: two
\* replies about the same room with the same version carry the same document.
C38_VersionIdentifiesDocument ==
  \A r \in DOMAIN rooms :
    \A a, b \in Replies(r) : a.version = b.version => a.document = b.document

\* C39: on the same document the client's validateOperation and the server's
\* isValidOperation give the same verdict for every operation, and where both
\* accept, the client's applyOperation and the server's
\* applyOperationToDocument give the same document.
C39_SameVerdict ==
  (received[1] # << >> /\ received[2] # << >>) =>
    /\ received[1][1].valid = received[2][1].valid
    /\ received[1][1].document = received[2][1].document

\* the socket of the lobby component, which sends create-room
LobbySocket == CHOOSE s \in EditorSessions : s \notin Editors

\* the socket of the editor component that the user who created the room opens
\* on it: the first of the editor components
CreatorsEditor == CHOOSE s \in Editors : \A t \in Editors : s <= t

\* C40: the user who creates a room from the lobby and then opens the editor
\* on it has one entry in the room's member map: the lobby's connection and the
\* editor's connection are never both members of the room.
C40_OneEntryPerUser ==
  \A r \in DOMAIN rooms :
    ~ /\ LobbySocket \in DOMAIN rooms[r].users
      /\ CreatorsEditor \in DOMAIN rooms[r].users
      /\ status[LobbySocket] = "open"
      /\ status[CreatorsEditor] = "open"

====
